---- MODULE Spec2Model ----
(***************************************************************************)
(* Model of the shadow generation pipeline of RealisticShadowGenerator:    *)
(* SilhouetteExtractor, LightVectorCalculator, ContactLineDetector,        *)
(* DistanceTransform, ShadowProjector, BlurEngine, ShadowCompositor and    *)
(* the orchestrator ShadowGenerator.                                       *)
(*                                                                         *)
(* Representation.  A pixel buffer of width w and height h is a function   *)
(* over the row-major indices 0..w*h-1 (idx = y*w + x); an RGBA buffer     *)
(* holds records [r, g, b, a] with channels in 0..255, a mask holds 0/1.   *)
(* Every buffer carries the identity `buf' of the allocation that made it, *)
(* so that aliasing between buffers can be stated.  Real numbers are       *)
(* Numbers, the binary64 values of the runtime, and the distances of a     *)
(* DistanceMap their binary32 roundings; channel values and coordinates of *)
(* pixels are plain integers.  Decimal inputs are written in thousandths   *)
(* (units of 1/Scale) and converted to the nearest Number.                 *)
(***************************************************************************)
EXTENDS Integers, Sequences, FiniteSets, TLC

(***************************************************************************)
(* Bounds of the model.                                                    *)
(***************************************************************************)
Width == 2
Height == 3
GenWidth == 3
GenHeight == 2
MaxDim == 2

\* the unit of the decimal inputs: 1.0 is written as Scale
Scale == 10 * 10 * 10

NumPixels(w, h) == w * h
Indices(w, h) == 0 .. (NumPixels(w, h) - 1)
XOf(idx, w) == idx % w
YOf(idx, w) == idx \div w

Min2(a, b) == IF a <= b THEN a ELSE b
Max2(a, b) == IF a >= b THEN a ELSE b
Abs(a) == IF a < 0 THEN 0 - a ELSE a

(***************************************************************************)
(* types.ts: ImageSet.  An absent image (undefined) is the record          *)
(* Undefined; a present image has a non-zero buffer identity.              *)
(***************************************************************************)
Undefined == [buf |-> 0, width |-> 0, height |-> 0, data |-> <<>>]
IsPresent(img) == img.buf # 0

FgBuf == 1
BgBuf == 2
DmBuf == 3
FirstFreshBuf == DmBuf + 1

Pixel(r, g, b, a) == [r |-> r, g |-> g, b |-> b, a |-> a]

(***************************************************************************)
(* SilhouetteExtractor.extract: mask[y*width+x] = alpha > threshold ? 1 : 0*)
(***************************************************************************)
DefaultAlphaThreshold == 10

\* a call that leaves the alphaThreshold argument out passes ArgOmitted
ArgOmitted == 0 - 1

\* the comparison written the other way round
extractInverted(imageData, alphaThreshold) ==
    LET threshold == IF alphaThreshold = ArgOmitted
                     THEN DefaultAlphaThreshold ELSE alphaThreshold
    IN [idx \in Indices(imageData.width, imageData.height) |->
           IF imageData.data[idx].a < threshold THEN 1 ELSE 0]

\* a non-strict comparison
extractNonStrict(imageData, alphaThreshold) ==
    LET threshold == IF alphaThreshold = ArgOmitted
                     THEN DefaultAlphaThreshold ELSE alphaThreshold
    IN [idx \in Indices(imageData.width, imageData.height) |->
           IF imageData.data[idx].a >= threshold THEN 1 ELSE 0]

extract(imageData, alphaThreshold) ==
    LET threshold == IF alphaThreshold = ArgOmitted
                     THEN DefaultAlphaThreshold ELSE alphaThreshold
    IN [idx \in Indices(imageData.width, imageData.height) |->
           IF imageData.data[idx].a > threshold THEN 1 ELSE 0]

\* SilhouetteExtractor.maskToImageData: 1 -> white, 0 -> black, alpha 255
maskToImageData(mask, width, height) ==
    [idx \in DOMAIN mask |->
        Pixel(mask[idx] * 255, mask[idx] * 255, mask[idx] * 255, 255)]

(***************************************************************************)
(* ContactLineDetector.detect                                              *)
(***************************************************************************)
\* the inner loop: scan column x from row y upward, -1 when none is opaque
RECURSIVE scanColumn(_, _, _, _)
scanColumn(mask, width, x, y) ==
    IF y < 0 THEN -1
    ELSE IF mask[y * width + x] = 1 THEN y
    ELSE scanColumn(mask, width, x, y - 1)

\* a scan that runs from the top row downward (finds the highest pixel)
RECURSIVE scanColumnFromTop(_, _, _, _)
scanColumnFromTop(mask, width, x, y) ==
    IF y < 0 THEN -1
    ELSE LET above == scanColumnFromTop(mask, width, x, y - 1)
         IN IF above >= 0 THEN above
            ELSE IF mask[y * width + x] = 1 THEN y ELSE -1

lowestOpaqueFromTop(mask, width, height, x) ==
    scanColumnFromTop(mask, width, x, height - 1)

lowestOpaque(mask, width, height, x) == scanColumn(mask, width, x, height - 1)

\* `if (lowestY >= 0)' with the bound off by one
hasContactAboveRowZero(lowestY) == lowestY > 0

\* `if (lowestY >= 0)': the column contributes a point
hasContact(lowestY) == lowestY >= 0

\* the outer loop over the columns x .. width-1, appending to points
RECURSIVE detectFrom(_, _, _, _, _)
detectFrom(mask, width, height, x, points) ==
    IF x >= width THEN points
    ELSE LET lowestY == lowestOpaque(mask, width, height, x)
         IN detectFrom(mask, width, height, x + 1,
                IF hasContact(lowestY)
                THEN Append(points, [x |-> x, y |-> lowestY])
                ELSE points)

detect(mask, width, height) ==
    [points |-> detectFrom(mask, width, height, 0, <<>>)]

(***************************************************************************)
(* Natural numbers of any size, as sequences of digits in base 2^14,       *)
(* least significant digit first; the empty sequence is 0.  They carry the *)
(* 53-bit significands of the numbers of the program and the exact         *)
(* products, sums and quotients before rounding.  Carries and borrows are  *)
(* given in closed form, so that no operation recurses over the digits,    *)
(* and every operation looks at its operands before anything else.  A      *)
(* sequence built digit by digit is taken through SubSeq, which leaves a   *)
(* tuple of its digits.                                                    *)
(***************************************************************************)
DigitBits == 14
Base == 2 ^ DigitBits

\* The operations below are applied through Apply, which takes the name of
\* an operation and the tuple of its operands and is defined after the last
\* of them: every use of an operation is then a reference to the one
\* definition of Apply.  The operation named X is defined as XImpl.
RECURSIVE Apply(_, _)
FMul(a, b) == Apply("FMul", <<a, b>>)
FAdd(a, b) == Apply("FAdd", <<a, b>>)
FDiv(a, b) == Apply("FDiv", <<a, b>>)
FCmp(a, b) == Apply("FCmp", <<a, b>>)
FFromInt(a) == Apply("FFromInt", <<a>>)
FMathRound(a) == Apply("FMathRound", <<a>>)
FFromFx(a) == Apply("FFromFx", <<a>>)
FToFx(a) == Apply("FToFx", <<a>>)
FToUint8Clamped(a) == Apply("FToUint8Clamped", <<a>>)
FExp(a) == Apply("FExp", <<a>>)
fRound(a, b, c) == Apply("fRound", <<a, b, c>>)
fAddOrdered(a, b) == Apply("fAddOrdered", <<a, b>>)
fCmpAbs(a, b) == Apply("fCmpAbs", <<a, b>>)
natAdd(a, b) == Apply("natAdd", <<a, b>>)
natSub(a, b) == Apply("natSub", <<a, b>>)
natCmp(a, b) == Apply("natCmp", <<a, b>>)
natMul(a, b) == Apply("natMul", <<a, b>>)
natShl(a, b) == Apply("natShl", <<a, b>>)
natShr(a, b) == Apply("natShr", <<a, b>>)
natMulSmall(a, b) == Apply("natMulSmall", <<a, b>>)
natDivStep(a, b, c) == Apply("natDivStep", <<a, b, c>>)
natSqrtStep(a, b, c, d) == Apply("natSqrtStep", <<a, b, c, d>>)
FSqrt(a) == Apply("FSqrt", <<a>>)
FToFloat32(a) == Apply("FToFloat32", <<a>>)
FMathCeil(a) == Apply("FMathCeil", <<a>>)

natDigit(a, i) == IF i >= 1 /\ i <= Len(a) THEN a[i] ELSE 0

\* the position of the highest non-zero digit of a, 0 for a = 0
natTop(a) ==
    IF \A i \in 1 .. Len(a) : a[i] = 0 THEN 0
    ELSE CHOOSE i \in 1 .. Len(a) :
            a[i] # 0 /\ \A j \in i + 1 .. Len(a) : a[j] = 0

\* a without leading zero digits
natTrim(a) == SubSeq(a, 1, natTop(a))

\* 0 <= n < 2^31
natFromInt(n) ==
    natTrim(<<n % Base, (n \div Base) % Base, n \div (Base * Base)>>)

\* a < 2^31
natToInt(a) ==
    natDigit(a, 1) + Base * natDigit(a, 2) + Base * Base * natDigit(a, 3)

\* a + b: position i receives a carry when some lower position overflows
\* and every position between the two passes a carry on
natAddImpl(a, b) ==
    IF Len(a) = 0 THEN natTrim(b)
    ELSE IF Len(b) = 0 THEN natTrim(a)
    ELSE
    LET n == Max2(Len(a), Len(b)) + 1
        col == SubSeq([i \in 1 .. n |-> natDigit(a, i) + natDigit(b, i)], 1, n)
        carry(i) == IF \E j \in 1 .. i - 1 :
                          /\ \A m \in j + 1 .. i - 1 : col[m] >= Base - 1
                          /\ col[j] >= Base
                    THEN 1 ELSE 0
    IN natTrim(SubSeq([i \in 1 .. n |-> (col[i] + carry(i)) % Base], 1, n))

\* a - b for a >= b, with borrows in place of carries
natSubImpl(a, b) ==
    IF Len(a) = 0 \/ Len(b) = 0 THEN natTrim(a)
    ELSE
    LET n == Len(a)
        col == SubSeq([i \in 1 .. n |-> a[i] - natDigit(b, i)], 1, n)
        borrow(i) == IF \E j \in 1 .. i - 1 :
                           /\ \A m \in j + 1 .. i - 1 : col[m] <= 0
                           /\ col[j] < 0
                     THEN 1 ELSE 0
    IN natTrim(SubSeq([i \in 1 .. n |-> (col[i] - borrow(i)) % Base], 1, n))

\* -1, 0 or 1 as a < b, a = b or a > b: decided by the highest position
\* where the digits differ
natCmpImpl(a, b) ==
    LET n == Max2(Len(a), Len(b))
        differ == {i \in 1 .. n : natDigit(a, i) # natDigit(b, i)}
        top == CHOOSE i \in differ : \A j \in differ : j <= i
    IN IF Len(a) = 0 /\ Len(b) = 0 THEN 0
       ELSE IF differ = {} THEN 0
       ELSE IF natDigit(a, top) < natDigit(b, top) THEN -1 ELSE 1

\* the sum of the digit products a[i] * b[j] with i + j = k + 1, for a of
\* at most 8 digits
natColumn(a, b, k) ==
    IF Len(a) <= 4
    THEN natDigit(a, 1) * natDigit(b, k) + natDigit(a, 2) * natDigit(b, k - 1)
         + natDigit(a, 3) * natDigit(b, k - 2)
         + natDigit(a, 4) * natDigit(b, k - 3)
    ELSE natDigit(a, 1) * natDigit(b, k) + natDigit(a, 2) * natDigit(b, k - 1)
         + natDigit(a, 3) * natDigit(b, k - 2)
         + natDigit(a, 4) * natDigit(b, k - 3)
         + natDigit(a, 5) * natDigit(b, k - 4)
         + natDigit(a, 6) * natDigit(b, k - 5)
         + natDigit(a, 7) * natDigit(b, k - 6)
         + natDigit(a, 8) * natDigit(b, k - 7)

\* a * b for a of at most 8 digits: each column sum is below 2^31 and is
\* split into three digits, which are added in their places
natMulImpl(a, b) ==
    LET n == Len(a) + Len(b)
        col == SubSeq([k \in 1 .. n |-> natColumn(a, b, k)], 1, n)
        low == SubSeq([k \in 1 .. n |-> col[k] % Base], 1, n)
        mid == SubSeq([k \in 1 .. n |-> (natDigit(col, k - 1) \div Base) % Base],
                      1, n)
        high == SubSeq([k \in 1 .. n |-> natDigit(col, k - 2) \div (Base * Base)],
                       1, n)
    IN IF Len(a) = 0 \/ Len(b) = 0 THEN <<>>
       ELSE natAdd(natAdd(low, mid), high)

\* a * 2^bits
natShlImpl(a, bits) ==
    LET q == bits \div DigitBits
        r == bits % DigitBits
    IN IF Len(a) = 0 THEN <<>>
       ELSE natTrim(SubSeq([i \in 1 .. Len(a) + q + 1 |->
                (natDigit(a, i - q) % 2 ^ (DigitBits - r)) * 2 ^ r
                + natDigit(a, i - q - 1) \div 2 ^ (DigitBits - r)],
                1, Len(a) + q + 1))

\* floor(a / 2^bits)
natShrImpl(a, bits) ==
    LET q == bits \div DigitBits
        r == bits % DigitBits
    IN IF q >= Len(a) THEN <<>>
       ELSE natTrim(SubSeq([i \in 1 .. Len(a) - q |->
                (a[i + q] \div 2 ^ r)
                + (natDigit(a, i + q + 1) % 2 ^ r) * 2 ^ (DigitBits - r)],
                1, Len(a) - q))

\* a mod 2^bits = 0
natLowZero(a, bits) ==
    /\ \A i \in 1 .. Min2(Len(a), bits \div DigitBits) : a[i] = 0
    /\ natDigit(a, bits \div DigitBits + 1) % 2 ^ (bits % DigitBits) = 0

natBit(a, i) == (natDigit(a, i \div DigitBits + 1) \div 2 ^ (i % DigitBits)) % 2

\* the number of bits of a digit 0 < n < Base
digitBitLen(n) == CHOOSE k \in 1 .. DigitBits : 2 ^ (k - 1) <= n /\ n < 2 ^ k

\* the number of bits of a
natBitLen(a) ==
    LET top == natTop(a)
    IN IF top = 0 THEN 0 ELSE (top - 1) * DigitBits + digitBitLen(a[top])

\* a * k for a digit k <= Base: the digit products are split into two digits
natMulSmallImpl(a, k) ==
    LET n == Len(a) + 1
        low == SubSeq([i \in 1 .. n |-> (natDigit(a, i) * k) % Base], 1, n)
        high == SubSeq([i \in 1 .. n |-> (natDigit(a, i - 1) * k) \div Base],
                       1, n)
    IN IF Len(a) = 0 \/ k = 0 THEN <<>> ELSE natAdd(low, high)

\* one step of the long division by d, whose top digit is at least Base / 2:
\* the digit `down' is brought down to the remainder rem < d; the quotient
\* digit is the estimate from the two top digits or one or two below it
natDivStepImpl(rem, down, d) ==
    LET r == natTrim(<<down>> \o rem)
        top == natDigit(r, Len(d) + 1) * Base + natDigit(r, Len(d))
        estimate == Min2(Base - 1, top \div d[Len(d)])
        q == IF natCmp(natMulSmall(d, estimate), r) <= 0 THEN estimate
             ELSE IF natCmp(natMulSmall(d, estimate - 1), r) <= 0
             THEN estimate - 1
             ELSE estimate - 2
    IN IF Len(rem) = 0 /\ down = 0 THEN [quot |-> 0, rem |-> <<>>]
       ELSE [quot |-> q, rem |-> natSub(r, natMulSmall(d, q))]

(***************************************************************************)
(* The Number type: IEEE 754 binary64.  A finite number is                 *)
(* sign * mant * 2^exp with MinExp <= exp <= MaxExp and mant a natural of  *)
(* exactly 53 bits, or of fewer bits at exp = MinExp (a subnormal), or     *)
(* zero (mant empty, exp 0, sign 1).  The exponent past MaxExp marks       *)
(* Infinity (mant empty, either sign) and NaN (mant <<1>>, sign 1).  Every *)
(* operation rounds its exact result to the nearest number, ties to the    *)
(* even significand, to Infinity past the largest number.  Zero carries no *)
(* sign: the program divides by no zero that it has computed.              *)
(***************************************************************************)
MantBits == 53
MinExp == 0 - 1074
MaxExp == 971
NonFiniteExp == MaxExp + 1

FZero == [sign |-> 1, mant |-> <<>>, exp |-> 0]
Infinity == [sign |-> 1, mant |-> <<>>, exp |-> NonFiniteExp]
NaN == [sign |-> 1, mant |-> <<1>>, exp |-> NonFiniteExp]

FIsNaN(a) == a.exp = NonFiniteExp /\ Len(a.mant) # 0
FIsInf(a) == a.exp = NonFiniteExp /\ Len(a.mant) = 0
FIsZero(a) == a.exp = 0 /\ Len(a.mant) = 0
FInfinity(sign) == [sign |-> sign, mant |-> <<>>, exp |-> NonFiniteExp]

\* n * 2^e rounded to a significand of at most `bits' bits and an exponent
\* of at least minExp: the significand and exponent of the result, the
\* significand of bits + 1 bits when the rounding carries
fRoundTo(n, e, bits, minExp) ==
    LET k == Max2(natBitLen(n) - bits, minExp - e)
        q == natShr(n, k)
        up == /\ natBit(n, k - 1) = 1
              /\ (~natLowZero(n, k - 1) \/ natBit(q, 0) = 1)
    IN IF k <= 0 THEN [mant |-> n, exp |-> e]
       ELSE [mant |-> IF up THEN natAdd(q, <<1>>) ELSE q, exp |-> e + k]

\* sign * n * 2^e for n of at most 54 bits whose lowest bit is 0 when it
\* has 54, and for e >= MinExp: the significand is moved to 53 bits as far
\* as the exponent allows
fPack(sign, n, e) ==
    LET up == Min2(MantBits - natBitLen(n), e - MinExp)
        mant == IF up < 0 THEN natShr(n, 1)
                ELSE IF up = 0 THEN n ELSE natShl(n, up)
    IN IF Len(n) = 0 THEN FZero
       ELSE IF e - up > MaxExp THEN FInfinity(sign)
       ELSE [sign |-> sign, mant |-> mant, exp |-> e - up]

\* the Number nearest to sign * n * 2^e
fRoundImpl(sign, n, e) ==
    LET r == fRoundTo(n, e, MantBits, MinExp)
    IN IF natTop(n) = 0 THEN FZero ELSE fPack(sign, r.mant, r.exp)

\* the store of a Number into a Float32Array: the nearest binary32 number
\* (24 bits, exponents from -149, Infinity from 2^128 on), as a Number
Float32Bits == 24
Float32MinExp == 0 - 149
Float32Limit == 128

FToFloat32Impl(a) ==
    LET r == fRoundTo(a.mant, a.exp, Float32Bits, Float32MinExp)
    IN IF a.exp = NonFiniteExp \/ FIsZero(a) THEN a
       ELSE IF natBitLen(r.mant) + r.exp > Float32Limit THEN FInfinity(a.sign)
       ELSE fPack(a.sign, r.mant, r.exp)

FFromIntImpl(i) == fRound(IF i < 0 THEN -1 ELSE 1, natFromInt(Abs(i)), 0)

FNeg(a) == IF FIsZero(a) \/ FIsNaN(a) THEN a ELSE [a EXCEPT !.sign = 0 - a.sign]
FAbs(a) == [a EXCEPT !.sign = 1]

\* -1, 0 or 1 as |a| < |b|, |a| = |b| or |a| > |b|, neither a NaN
fCmpAbsImpl(a, b) ==
    IF FIsZero(a) THEN (IF FIsZero(b) THEN 0 ELSE -1)
    ELSE IF FIsZero(b) THEN 1
    ELSE IF a.exp < b.exp THEN -1
    ELSE IF a.exp > b.exp THEN 1
    ELSE natCmp(a.mant, b.mant)

\* -1, 0 or 1 as a < b, a = b or a > b, and 2 when one of them is NaN: no
\* comparison with NaN holds
Unordered == 2

FCmpImpl(a, b) ==
    IF FIsNaN(a) \/ FIsNaN(b) THEN Unordered
    ELSE IF FIsZero(a) /\ FIsZero(b) THEN 0
    ELSE IF FIsZero(a) THEN 0 - b.sign
    ELSE IF FIsZero(b) THEN a.sign
    ELSE IF a.sign # b.sign THEN a.sign
    ELSE a.sign * fCmpAbs(a, b)

FLt(a, b) == FCmp(a, b) = -1
FLe(a, b) == FCmp(a, b) \in {-1, 0}
FGt(a, b) == FCmp(a, b) = 1
\* Math.max and Math.min: NaN when an argument is NaN
FMax(a, b) ==
    IF FIsNaN(a) \/ FIsNaN(b) THEN NaN ELSE IF FLt(a, b) THEN b ELSE a
FMin(a, b) ==
    IF FIsNaN(a) \/ FIsNaN(b) THEN NaN ELSE IF FLt(b, a) THEN b ELSE a

\* the significand of the powers of two; multiplying or dividing by one of
\* them only moves the exponent
PowerOfTwoMant == <<0, 0, 0, 2 ^ (MantBits - 1 - 3 * DigitBits)>>

\* 2^k for -1022 <= k <= 1023
PowerOfTwo(k) == [sign |-> 1, mant |-> PowerOfTwoMant, exp |-> k + 1 - MantBits]

FOne == PowerOfTwo(0)
FHalf == PowerOfTwo(-1)
FTwo == PowerOfTwo(1)

FMulImpl(a, b) ==
    IF FIsNaN(a) \/ FIsNaN(b) THEN NaN
    ELSE IF FIsInf(a) \/ FIsInf(b)
         THEN (IF FIsZero(a) \/ FIsZero(b) THEN NaN
               ELSE FInfinity(a.sign * b.sign))
    ELSE IF FIsZero(a) \/ FIsZero(b) THEN FZero
    ELSE IF b.mant = PowerOfTwoMant
         THEN fRound(a.sign * b.sign, a.mant, a.exp + b.exp + MantBits - 1)
    ELSE IF a.mant = PowerOfTwoMant
         THEN fRound(a.sign * b.sign, b.mant, a.exp + b.exp + MantBits - 1)
    ELSE fRound(a.sign * b.sign, natMul(a.mant, b.mant), a.exp + b.exp)

\* big + small or big - small for |big| >= |small|, both finite and neither
\* zero
fAddOrderedImpl(big, small) ==
    LET d == big.exp - small.exp
        wide == natShl(big.mant, d)
    IN IF d > MantBits + 2 THEN big
       ELSE IF big.sign = small.sign
            THEN fRound(big.sign, natAdd(wide, small.mant), small.exp)
       ELSE fRound(big.sign, natSub(wide, small.mant), small.exp)

FAddImpl(a, b) ==
    IF FIsNaN(a) \/ FIsNaN(b) THEN NaN
    ELSE IF FIsInf(a)
         THEN (IF FIsInf(b) /\ a.sign # b.sign THEN NaN ELSE a)
    ELSE IF FIsInf(b) THEN b
    ELSE IF FIsZero(a) THEN b
    ELSE IF FIsZero(b) THEN a
    ELSE IF fCmpAbs(a, b) >= 0 THEN fAddOrdered(a, b)
    ELSE fAddOrdered(b, a)

FSub(a, b) == FAdd(a, FNeg(b))

\* the significand of a finite a # 0 moved to 53 bits, whatever exponent
\* that takes
fNormal(a) ==
    LET up == MantBits - natBitLen(a.mant)
    IN IF up = 0 THEN a
       ELSE [a EXCEPT !.mant = natShl(a.mant, up), !.exp = a.exp - up]

\* a / b.  The significands are aligned at the top of four digits; five
\* steps of long division give a quotient of 56 or 57 bits, and one more
\* bit tells whether a remainder is left.
FDivImpl(a, b) ==
    IF FIsNaN(a) \/ FIsNaN(b) THEN NaN
    ELSE IF FIsInf(a)
         THEN (IF FIsInf(b) THEN NaN ELSE FInfinity(a.sign * b.sign))
    ELSE IF FIsInf(b) THEN FZero
    ELSE IF FIsZero(b)
         THEN (IF FIsZero(a) THEN NaN ELSE FInfinity(a.sign))
    ELSE IF FIsZero(a) THEN FZero
    ELSE LET na == fNormal(a)
             nb == fNormal(b)
             n == natShl(na.mant, 3)
             d == natShl(nb.mant, 3)
             s1 == natDivStep(SubSeq(n, 2, 4), n[1], d)
             s2 == natDivStep(s1.rem, 0, d)
             s3 == natDivStep(s2.rem, 0, d)
             s4 == natDivStep(s3.rem, 0, d)
             s5 == natDivStep(s4.rem, 0, d)
             sticky == IF Len(s5.rem) = 0 THEN 0 ELSE 1
             quot == <<s5.quot, s4.quot, s3.quot, s2.quot, s1.quot>>
         IN IF nb.mant = PowerOfTwoMant
            THEN fRound(a.sign * b.sign, na.mant,
                        na.exp - nb.exp - (MantBits - 1))
            ELSE IF na.mant = nb.mant
            THEN fRound(a.sign * b.sign, PowerOfTwoMant,
                        na.exp - nb.exp - (MantBits - 1))
            ELSE fRound(a.sign * b.sign,
                        natAdd(natShl(quot, 1), natFromInt(sticky)),
                        na.exp - nb.exp - 57)

\* floor(2 * |a|) for a finite |a| < 2^29, and whether 2 * |a| is an integer
fTwiceFloor(a) ==
    IF FIsZero(a) THEN 0 ELSE natToInt(natShr(a.mant, 0 - (a.exp + 1)))

fTwiceExact(a) ==
    FIsZero(a) \/ natLowZero(a.mant, 0 - (a.exp + 1))

\* Math.round: the nearest integer, halves toward +infinity
FMathRoundImpl(a) ==
    LET h == fTwiceFloor(a)
    IN IF a.sign > 0 THEN (h + 1) \div 2
       ELSE IF fTwiceExact(a) THEN 0 - (h \div 2)
       ELSE 0 - ((h + 1) \div 2)

\* Math.ceil of a finite Number
FMathCeilImpl(a) ==
    LET h == fTwiceFloor(a)
    IN IF a.sign < 0 THEN 0 - (h \div 2)
       ELSE IF fTwiceExact(a) /\ h % 2 = 0 THEN h \div 2
       ELSE h \div 2 + 1

\* the integer part of a finite Number, as a conversion to int takes it
FTrunc(a) == a.sign * (fTwiceFloor(a) \div 2)

\* the store of a Number into a Uint8ClampedArray: clamped to 0..255 and
\* rounded to the nearest integer, halves to the even neighbour; NaN is
\* stored as 0
FToUint8ClampedImpl(a) ==
    LET h == fTwiceFloor(a)
        n == h \div 2
    IN IF FIsNaN(a) \/ a.sign < 0 \/ FIsZero(a) THEN 0
       ELSE IF FCmp(a, FFromInt(255)) >= 0 THEN 255
       ELSE IF h % 2 = 0 THEN n
       ELSE IF fTwiceExact(a) THEN (IF n % 2 = 0 THEN n ELSE n + 1)
       ELSE n + 1

\* a value given in units of 1/Scale, as the Number its decimal literal
\* denotes
FFromFxImpl(v) == FDiv(FFromInt(v), FFromInt(Scale))

\* a Number in units of 1/Scale, to the nearest unit
FToFxImpl(a) == FMathRound(FMul(a, FFromInt(Scale)))

(***************************************************************************)
(* Math.sqrt: the Number nearest to the square root.  The significand is   *)
(* moved to a radicand of eight digits whose top digit is at least         *)
(* Base / 4; its root has four digits, found one digit at a time from the  *)
(* top as in the long-hand method, and one more bit tells whether a        *)
(* remainder is left.                                                      *)
(***************************************************************************)
RECURSIVE ISqrtSearch(_, _, _)
ISqrtSearch(n, lo, hi) ==
    IF lo >= hi THEN lo
    ELSE LET mid == (lo + hi + 1) \div 2
         IN IF mid * mid <= n THEN ISqrtSearch(n, mid, hi)
            ELSE ISqrtSearch(n, lo, mid - 1)

\* the largest r with r * r <= n, for n < 2^30
ISqrt(n) == ISqrtSearch(n, 0, Min2(n, 32767))

\* the next digit of the root: the largest q with
\* (2 * root * Base + q) * q <= rem * Base^2 + hi * Base + lo, where rem
\* is what the digits so far have left, rem <= 2 * root.  The estimate is
\* the quotient of the remainder by twice the root.
natSqrtStepImpl(root, rem, hi, lo) ==
    LET whole == natTrim(<<lo, hi>> \o rem)
        half == natShr(rem, 1)
        low == ((natDigit(rem, 1) % 2) * Base + hi) \div 2
        estimate == IF natCmp(half, root) >= 0 THEN Base - 1
                    ELSE natDivStep(half, low, root).quot
        twice == natShl(root, DigitBits + 1)
        taken(q) == natMulSmall(natAdd(twice, natFromInt(q)), q)
        q == IF natCmp(taken(estimate), whole) <= 0 THEN estimate
             ELSE IF natCmp(taken(estimate - 1), whole) <= 0
             THEN estimate - 1
             ELSE estimate - 2
    IN [root |-> natTrim(<<q>> \o root), rem |-> natSub(whole, taken(q))]

\* the root of n of eight digits, n[8] >= Base / 4, and what it leaves
natSqrt(n) ==
    LET top == n[8] * Base + n[7]
        r1 == ISqrt(top)
        s1 == [root |-> <<r1>>, rem |-> natFromInt(top - r1 * r1)]
        s2 == natSqrtStep(s1.root, s1.rem, n[6], n[5])
        s3 == natSqrtStep(s2.root, s2.rem, n[4], n[3])
    IN natSqrtStep(s3.root, s3.rem, n[2], n[1])

RadicandBits == 8 * DigitBits

FSqrtImpl(a) ==
    IF FIsNaN(a) \/ (a.sign < 0 /\ ~FIsZero(a)) THEN NaN
    ELSE IF FIsInf(a) \/ FIsZero(a) THEN a
    ELSE LET fit == RadicandBits - natBitLen(a.mant)
             up == IF (a.exp - fit) % 2 = 0 THEN fit ELSE fit - 1
             wide == natShl(a.mant, up)
             n == [i \in 1 .. 8 |-> natDigit(wide, i)]
             s == natSqrt(n)
             sticky == IF Len(s.rem) = 0 THEN <<>> ELSE <<1>>
         IN fRound(1, natAdd(natShl(s.root, 1), sticky),
                   (a.exp - up) \div 2 - 1)

\* a Number from the sign, the exponent and the four digits of its
\* significand, least significant first
fromTable(row) ==
    [sign |-> row[1], mant |-> natTrim(<<row[3], row[4], row[5], row[6]>>),
     exp |-> row[2]]

(***************************************************************************)
(* Math.exp, as the runtime computes it (V8, ieee754::exp): the argument   *)
(* is reduced to r = x - k * ln2 with |r| <= 0.5 * ln2, ln2 held in two    *)
(* parts; exp(r) is 1 + 2r / (R - r) with R = r * coth(r / 2) approximated *)
(* by 2 + P1 * r^2 + ... + P5 * r^10; and the result is scaled by 2^k.     *)
(* Every step is an operation on Numbers, in the order of the code.        *)
(***************************************************************************)
o_threshold == fromTable(<<1, -43, 14831, 15336, 9263, 1419>>)
u_threshold == fromTable(<<-1, -43, 12369, 5300, 4365, 1490>>)
ln2HI == fromTable(<<1, -53, 0, 15232, 9263, 1419>>)
ln2LO == fromTable(<<1, -85, 15478, 5604, 7923, 1678>>)
invln2 == fromTable(<<1, -52, 766, 5294, 5238, 1477>>)
P1 == fromTable(<<1, -55, 5438, 5461, 5461, 1365>>)
P2 == fromTable(<<-1, -61, 15763, 6906, 5825, 1456>>)
P3 == fromTable(<<1, -66, 7724, 15511, 9898, 1109>>)
P4 == fromTable(<<-1, -72, 11249, 5961, 5148, 1775>>)
P5 == fromTable(<<1, -77, 9424, 2810, 13975, 1421>>)
E == fromTable(<<1, -51, 5993, 11345, 12456, 1391>>)
\* the least |x| whose high word is above 0x3FD62E42 (0.5 * ln2), the least
\* whose high word is 0x3FF0A2B2 (1.5 * ln2), and 2^-28
HalfLn2Word == fromTable(<<1, -54, 0, 0, 9264, 1419>>)
ThreeHalvesLn2Word == fromTable(<<1, -52, 0, 0, 11040, 1064>>)
TwoToMinus28 == PowerOfTwo(-28)

\* hi, lo and k of the argument reduction, for |x| >= HalfLn2Word
expReduce(x) ==
    IF fCmpAbs(x, ThreeHalvesLn2Word) < 0
    THEN [hi |-> FSub(x, IF x.sign > 0 THEN ln2HI ELSE FNeg(ln2HI)),
          lo |-> IF x.sign > 0 THEN ln2LO ELSE FNeg(ln2LO),
          k |-> x.sign]
    ELSE LET k == FTrunc(FAdd(FMul(invln2, x),
                              IF x.sign > 0 THEN FHalf ELSE FNeg(FHalf)))
             t == FFromInt(k)
         IN [hi |-> FSub(x, FMul(t, ln2HI)), lo |-> FMul(t, ln2LO), k |-> k]

\* exp of x in the primary range as hi - lo, scaled by 2^k
expScaled(red, k) ==
    LET x == IF k = 0 THEN red.hi ELSE FSub(red.hi, red.lo)
        t == FMul(x, x)
        c == FSub(x, FMul(t, FAdd(P1, FMul(t, FAdd(P2, FMul(t,
                 FAdd(P3, FMul(t, FAdd(P4, FMul(t, P5))))))))))
        y == FSub(FOne, FSub(FSub(red.lo, FDiv(FMul(x, c), FSub(FTwo, c))),
                             red.hi))
    IN IF k = 0
       THEN FSub(FOne, FSub(FDiv(FMul(x, c), FSub(c, FTwo)), x))
       ELSE IF k >= -1021
       THEN (IF k = 1024 THEN FMul(FMul(y, FTwo), PowerOfTwo(1023))
             ELSE FMul(y, PowerOfTwo(k)))
       ELSE FMul(FMul(y, PowerOfTwo(k + 1000)), PowerOfTwo(-1000))

FExpImpl(x) ==
    IF FIsNaN(x) THEN NaN
    ELSE IF FIsInf(x) THEN (IF x.sign > 0 THEN x ELSE FZero)
    ELSE IF FGt(x, o_threshold) THEN Infinity
    ELSE IF FLt(x, u_threshold) THEN FZero
    ELSE IF fCmpAbs(x, HalfLn2Word) >= 0
    THEN (IF x = FOne THEN E
          ELSE LET red == expReduce(x) IN expScaled(red, red.k))
    ELSE IF fCmpAbs(x, TwoToMinus28) < 0 THEN FAdd(FOne, x)
    ELSE expScaled([hi |-> x, lo |-> FZero], 0)

(***************************************************************************)
(* utils/math degreesToRadians (degrees * (Math.PI / 180)) followed by     *)
(* Math.sin or Math.cos, tabulated as Numbers for whole degrees 0..360.    *)
(* The values are those the runtime's Math.sin and Math.cos return (V8,    *)
(* ieee754::sin and ieee754::cos), which are not everywhere the nearest    *)
(* Numbers: sin(180 deg) is 1.22e-16 and cos(90 deg) is 6.1e-17, not 0.    *)
(***************************************************************************)
\* Math.sin(degreesToRadians(d)) for d = 0, 1, ..., 360: sign, exponent and the
\* four digits of the significand, least significant first
SinTable ==
    <<<<1, 0, 0, 0, 0, 0>>, <<1, -58, 7454, 11815, 12466, 1143>>,
      <<1, -57, 7207, 10207, 9612, 1143>>, <<1, -57, 2318, 9151, 15476, 1714>>,
      <<1, -56, 4392, 13737, 14582, 1142>>, <<1, -56, 258, 8970, 15723, 1427>>,
      <<1, -56, 5996, 11505, 9737, 1712>>, <<1, -56, 8915, 12605, 11588, 1996>>,
      <<1, -55, 7705, 6710, 1737, 1140>>, <<1, -55, 4981, 7841, 8374, 1281>>,
      <<1, -55, 13193, 14381, 8615, 1422>>, <<1, -55, 8783, 13785, 1757, 1563>>,
      <<1, -55, 6390, 12553, 3482, 1703>>, <<1, -55, 1653, 6967, 13091, 1842>>,
      <<1, -55, 14621, 2962, 13503, 1981>>, <<1, -54, 1680, 1612, 2012, 1060>>,
      <<1, -54, 3625, 13514, 173, 1129>>, <<1, -54, 5576, 15887, 9084, 1197>>,
      <<1, -54, 10575, 7359, 12019, 1265>>, <<1, -54, 3548, 3, 8637, 1333>>,
      <<1, -54, 3061, 4648, 14983, 1400>>, <<1, -54, 4924, 16187, 14337, 1467>>,
      <<1, -54, 5761, 15254, 6366, 1534>>, <<1, -54, 16299, 2659, 7122, 1600>>,
      <<1, -54, 6865, 1048, 16274, 1665>>, <<1, -54, 6227, 7390, 727, 1731>>,
      <<1, -54, 1480, 11000, 9309, 1795>>, <<1, -54, 7680, 11539, 8930, 1859>>,
      <<1, -54, 4217, 4241, 15655, 1922>>, <<1, -54, 8429, 14270, 12782, 1985>>,
      <<1, -54, 16383, 16383, 16383, 2047>>, <<1, -53, 7955, 1015, 13074, 1054>>,
      <<1, -53, 7466, 15027, 4499, 1085>>, <<1, -53, 14109, 7617, 6893, 1115>>,
      <<1, -53, 15635, 4167, 3720, 1145>>, <<1, -53, 2424, 8689, 11215, 1174>>,
      <<1, -53, 6750, 4565, 12848, 1203>>, <<1, -53, 16054, 4438, 8473, 1232>>,
      <<1, -53, 2361, 1783, 14331, 1260>>, <<1, -53, 15037, 4385, 13896, 1288>>,
      <<1, -53, 5660, 2288, 7029, 1316>>, <<1, -53, 4052, 1249, 9976, 1343>>,
      <<1, -53, 3032, 7048, 6217, 1370>>, <<1, -53, 7211, 9778, 12003, 1396>>,
      <<1, -53, 13072, 897, 10819, 1422>>, <<1, -53, 15308, 6652, 2534, 1448>>,
      <<1, -53, 3385, 6805, 3406, 1473>>, <<1, -53, 10626, 801, 13310, 1497>>,
      <<1, -53, 16066, 8398, 15738, 1521>>, <<1, -53, 7223, 4740, 10571, 1545>>,
      <<1, -53, 4153, 2877, 14074, 1568>>, <<1, -53, 9000, 5206, 9747, 1591>>,
      <<1, -53, 9170, 4049, 13861, 1613>>, <<1, -53, 14868, 14985, 9920, 1635>>,
      <<1, -53, 13480, 11871, 14201, 1656>>, <<1, -53, 1863, 9302, 10213, 1677>>,
      <<1, -53, 11941, 13987, 14236, 1697>>, <<1, -53, 12252, 8888, 9786, 1717>>,
      <<1, -53, 10566, 2870, 13148, 1736>>, <<1, -53, 10974, 14811, 7841, 1755>>,
      <<1, -53, 3242, 8545, 10158, 1773>>, <<1, -53, 14790, 8012, 3623, 1791>>,
      <<1, -53, 9991, 15796, 4532, 1808>>, <<1, -53, 11372, 13556, 12801, 1824>>,
      <<1, -53, 14538, 11608, 11963, 1840>>, <<1, -53, 5991, 183, 1939, 1856>>,
      <<1, -53, 16277, 15357, 15418, 1870>>, <<1, -53, 9839, 8369, 3177, 1885>>,
      <<1, -53, 2904, 9823, 14295, 1898>>, <<1, -53, 14341, 15358, 15936, 1911>>,
      <<1, -53, 11547, 2376, 8036, 1924>>, <<1, -53, 13514, 12282, 6914, 1936>>,
      <<1, -53, 5375, 3345, 12513, 1947>>, <<1, -53, 6943, 14831, 8390, 1958>>,
      <<1, -53, 15232, 3449, 10878, 1968>>, <<1, -53, 16149, 7458, 3540, 1978>>,
      <<1, -53, 14885, 15846, 2713, 1987>>, <<1, -53, 1807, 1338, 8354, 1995>>,
      <<1, -53, 127, 2536, 4035, 2003>>, <<1, -53, 14018, 9442, 6102, 2010>>,
      <<1, -53, 7191, 12804, 14520, 2016>>, <<1, -53, 9308, 4287, 12873, 2022>>,
      <<1, -53, 5242, 9410, 1130, 2028>>, <<1, -53, 16011, 5768, 12034, 2032>>,
      <<1, -53, 10182, 5089, 12793, 2036>>, <<1, -53, 5538, 4192, 3387, 2040>>,
      <<1, -53, 16374, 1475, 183, 2043>>, <<1, -53, 9757, 13387, 3166, 2045>>,
      <<1, -53, 1383, 8956, 12327, 2046>>, <<1, -53, 12170, 8150, 11273, 2047>>,
      <<1, -52, 0, 0, 0, 1024>>, <<1, -53, 12170, 8150, 11273, 2047>>,
      <<1, -53, 1383, 8956, 12327, 2046>>, <<1, -53, 9757, 13387, 3166, 2045>>,
      <<1, -53, 16374, 1475, 183, 2043>>, <<1, -53, 5538, 4192, 3387, 2040>>,
      <<1, -53, 10182, 5089, 12793, 2036>>, <<1, -53, 16012, 5768, 12034, 2032>>,
      <<1, -53, 5242, 9410, 1130, 2028>>, <<1, -53, 9308, 4287, 12873, 2022>>,
      <<1, -53, 7191, 12804, 14520, 2016>>, <<1, -53, 14018, 9442, 6102, 2010>>,
      <<1, -53, 128, 2536, 4035, 2003>>, <<1, -53, 1807, 1338, 8354, 1995>>,
      <<1, -53, 14885, 15846, 2713, 1987>>, <<1, -53, 16149, 7458, 3540, 1978>>,
      <<1, -53, 15232, 3449, 10878, 1968>>, <<1, -53, 6944, 14831, 8390, 1958>>,
      <<1, -53, 5376, 3345, 12513, 1947>>, <<1, -53, 13515, 12282, 6914, 1936>>,
      <<1, -53, 11548, 2376, 8036, 1924>>, <<1, -53, 14341, 15358, 15936, 1911>>,
      <<1, -53, 2904, 9823, 14295, 1898>>, <<1, -53, 9838, 8369, 3177, 1885>>,
      <<1, -53, 16277, 15357, 15418, 1870>>, <<1, -53, 5992, 183, 1939, 1856>>,
      <<1, -53, 14537, 11608, 11963, 1840>>, <<1, -53, 11373, 13556, 12801, 1824>>,
      <<1, -53, 9991, 15796, 4532, 1808>>, <<1, -53, 14791, 8012, 3623, 1791>>,
      <<1, -53, 3243, 8545, 10158, 1773>>, <<1, -53, 10974, 14811, 7841, 1755>>,
      <<1, -53, 10566, 2870, 13148, 1736>>, <<1, -53, 12252, 8888, 9786, 1717>>,
      <<1, -53, 11941, 13987, 14236, 1697>>, <<1, -53, 1862, 9302, 10213, 1677>>,
      <<1, -53, 13480, 11871, 14201, 1656>>, <<1, -53, 14867, 14985, 9920, 1635>>,
      <<1, -53, 9170, 4049, 13861, 1613>>, <<1, -53, 9001, 5206, 9747, 1591>>,
      <<1, -53, 4153, 2877, 14074, 1568>>, <<1, -53, 7224, 4740, 10571, 1545>>,
      <<1, -53, 16066, 8398, 15738, 1521>>, <<1, -53, 10627, 801, 13310, 1497>>,
      <<1, -53, 3384, 6805, 3406, 1473>>, <<1, -53, 15309, 6652, 2534, 1448>>,
      <<1, -53, 13071, 897, 10819, 1422>>, <<1, -53, 7212, 9778, 12003, 1396>>,
      <<1, -53, 3033, 7048, 6217, 1370>>, <<1, -53, 4052, 1249, 9976, 1343>>,
      <<1, -53, 5662, 2288, 7029, 1316>>, <<1, -53, 15037, 4385, 13896, 1288>>,
      <<1, -53, 2362, 1783, 14331, 1260>>, <<1, -53, 16053, 4438, 8473, 1232>>,
      <<1, -53, 6751, 4565, 12848, 1203>>, <<1, -53, 2423, 8689, 11215, 1174>>,
      <<1, -53, 15635, 4167, 3720, 1145>>, <<1, -53, 14111, 7617, 6893, 1115>>,
      <<1, -53, 7466, 15027, 4499, 1085>>, <<1, -53, 7957, 1015, 13074, 1054>>,
      <<1, -54, 16383, 16383, 16383, 2047>>, <<1, -54, 8431, 14270, 12782, 1985>>,
      <<1, -54, 4215, 4241, 15655, 1922>>, <<1, -54, 7682, 11539, 8930, 1859>>,
      <<1, -54, 1478, 11000, 9309, 1795>>, <<1, -54, 6228, 7390, 727, 1731>>,
      <<1, -54, 6869, 1048, 16274, 1665>>, <<1, -54, 16299, 2659, 7122, 1600>>,
      <<1, -54, 5765, 15254, 6366, 1534>>, <<1, -54, 4923, 16187, 14337, 1467>>,
      <<1, -54, 3064, 4648, 14983, 1400>>, <<1, -54, 3546, 3, 8637, 1333>>,
      <<1, -54, 10577, 7359, 12019, 1265>>, <<1, -54, 5573, 15887, 9084, 1197>>,
      <<1, -54, 3626, 13514, 173, 1129>>, <<1, -54, 1685, 1612, 2012, 1060>>,
      <<1, -55, 14621, 2962, 13503, 1981>>, <<1, -55, 1660, 6967, 13091, 1842>>,
      <<1, -55, 6389, 12553, 3482, 1703>>, <<1, -55, 8789, 13785, 1757, 1563>>,
      <<1, -55, 13191, 14381, 8615, 1422>>, <<1, -55, 4985, 7841, 8374, 1281>>,
      <<1, -55, 7701, 6710, 1737, 1140>>, <<1, -56, 8920, 12605, 11588, 1996>>,
      <<1, -56, 6015, 11505, 9737, 1712>>, <<1, -56, 260, 8970, 15723, 1427>>,
      <<1, -56, 4408, 13737, 14582, 1142>>, <<1, -57, 2314, 9151, 15476, 1714>>,
      <<1, -57, 7232, 10207, 9612, 1143>>, <<1, -58, 7433, 11815, 12466, 1143>>,
      <<1, -105, 7175, 3153, 8803, 1129>>, <<-1, -58, 7490, 11815, 12466, 1143>>,
      <<-1, -57, 7197, 10207, 9612, 1143>>, <<-1, -57, 2279, 9151, 15476, 1714>>,
      <<-1, -56, 4390, 13737, 14582, 1142>>, <<-1, -56, 242, 8970, 15723, 1427>>,
      <<-1, -56, 5998, 11505, 9737, 1712>>, <<-1, -56, 8903, 12605, 11588, 1996>>,
      <<-1, -55, 7708, 6710, 1737, 1140>>, <<-1, -55, 4976, 7841, 8374, 1281>>,
      <<-1, -55, 13198, 14381, 8615, 1422>>, <<-1, -55, 8780, 13785, 1757, 1563>>,
      <<-1, -55, 6396, 12553, 3482, 1703>>, <<-1, -55, 1652, 6967, 13091, 1842>>,
      <<-1, -55, 14613, 2962, 13503, 1981>>, <<-1, -54, 1681, 1612, 2012, 1060>>,
      <<-1, -54, 3622, 13514, 173, 1129>>, <<-1, -54, 5576, 15887, 9084, 1197>>,
      <<-1, -54, 10573, 7359, 12019, 1265>>, <<-1, -54, 3549, 3, 8637, 1333>>,
      <<-1, -54, 3060, 4648, 14983, 1400>>, <<-1, -54, 4927, 16187, 14337, 1467>>,
      <<-1, -54, 5761, 15254, 6366, 1534>>, <<-1, -54, 16295, 2659, 7122, 1600>>,
      <<-1, -54, 6865, 1048, 16274, 1665>>, <<-1, -54, 6224, 7390, 727, 1731>>,
      <<-1, -54, 1481, 11000, 9309, 1795>>, <<-1, -54, 7679, 11539, 8930, 1859>>,
      <<-1, -54, 4218, 4241, 15655, 1922>>, <<-1, -54, 8427, 14270, 12782, 1985>>,
      <<-1, -53, 1, 0, 0, 1024>>, <<-1, -53, 7955, 1015, 13074, 1054>>,
      <<-1, -53, 7465, 15027, 4499, 1085>>, <<-1, -53, 14109, 7617, 6893, 1115>>,
      <<-1, -53, 15633, 4167, 3720, 1145>>, <<-1, -53, 2425, 8689, 11215, 1174>>,
      <<-1, -53, 6749, 4565, 12848, 1203>>, <<-1, -53, 16055, 4438, 8473, 1232>>,
      <<-1, -53, 2360, 1783, 14331, 1260>>, <<-1, -53, 15039, 4385, 13896, 1288>>,
      <<-1, -53, 5660, 2288, 7029, 1316>>, <<-1, -53, 4050, 1249, 9976, 1343>>,
      <<-1, -53, 3032, 7048, 6217, 1370>>, <<-1, -53, 7210, 9778, 12003, 1396>>,
      <<-1, -53, 13073, 897, 10819, 1422>>, <<-1, -53, 15308, 6652, 2534, 1448>>,
      <<-1, -53, 3385, 6805, 3406, 1473>>, <<-1, -53, 10626, 801, 13310, 1497>>,
      <<-1, -53, 16067, 8398, 15738, 1521>>, <<-1, -53, 7223, 4740, 10571, 1545>>,
      <<-1, -53, 4152, 2877, 14074, 1568>>, <<-1, -53, 8997, 5206, 9747, 1591>>,
      <<-1, -53, 9171, 4049, 13861, 1613>>, <<-1, -53, 14868, 14985, 9920, 1635>>,
      <<-1, -53, 13479, 11871, 14201, 1656>>, <<-1, -53, 1861, 9302, 10213, 1677>>,
      <<-1, -53, 11942, 13987, 14236, 1697>>, <<-1, -53, 12252, 8888, 9786, 1717>>,
      <<-1, -53, 10565, 2870, 13148, 1736>>, <<-1, -53, 10972, 14811, 7841, 1755>>,
      <<-1, -53, 3241, 8545, 10158, 1773>>, <<-1, -53, 14791, 8012, 3623, 1791>>,
      <<-1, -53, 9992, 15796, 4532, 1808>>, <<-1, -53, 11372, 13556, 12801, 1824>>,
      <<-1, -53, 14536, 11608, 11963, 1840>>, <<-1, -53, 5992, 183, 1939, 1856>>,
      <<-1, -53, 16278, 15357, 15418, 1870>>, <<-1, -53, 9838, 8369, 3177, 1885>>,
      <<-1, -53, 2903, 9823, 14295, 1898>>, <<-1, -53, 14340, 15358, 15936, 1911>>,
      <<-1, -53, 11548, 2376, 8036, 1924>>, <<-1, -53, 13515, 12282, 6914, 1936>>,
      <<-1, -53, 5375, 3345, 12513, 1947>>, <<-1, -53, 6942, 14831, 8390, 1958>>,
      <<-1, -53, 15232, 3449, 10878, 1968>>, <<-1, -53, 16149, 7458, 3540, 1978>>,
      <<-1, -53, 14885, 15846, 2713, 1987>>, <<-1, -53, 1806, 1338, 8354, 1995>>,
      <<-1, -53, 127, 2536, 4035, 2003>>, <<-1, -53, 14018, 9442, 6102, 2010>>,
      <<-1, -53, 7191, 12804, 14520, 2016>>, <<-1, -53, 9307, 4287, 12873, 2022>>,
      <<-1, -53, 5241, 9410, 1130, 2028>>, <<-1, -53, 16012, 5768, 12034, 2032>>,
      <<-1, -53, 10183, 5089, 12793, 2036>>, <<-1, -53, 5538, 4192, 3387, 2040>>,
      <<-1, -53, 16374, 1475, 183, 2043>>, <<-1, -53, 9757, 13387, 3166, 2045>>,
      <<-1, -53, 1383, 8956, 12327, 2046>>, <<-1, -53, 12170, 8150, 11273, 2047>>,
      <<-1, -52, 0, 0, 0, 1024>>, <<-1, -53, 12170, 8150, 11273, 2047>>,
      <<-1, -53, 1383, 8956, 12327, 2046>>, <<-1, -53, 9757, 13387, 3166, 2045>>,
      <<-1, -53, 16375, 1475, 183, 2043>>, <<-1, -53, 5538, 4192, 3387, 2040>>,
      <<-1, -53, 10183, 5089, 12793, 2036>>, <<-1, -53, 16011, 5768, 12034, 2032>>,
      <<-1, -53, 5242, 9410, 1130, 2028>>, <<-1, -53, 9308, 4287, 12873, 2022>>,
      <<-1, -53, 7192, 12804, 14520, 2016>>, <<-1, -53, 14017, 9442, 6102, 2010>>,
      <<-1, -53, 127, 2536, 4035, 2003>>, <<-1, -53, 1807, 1338, 8354, 1995>>,
      <<-1, -53, 14886, 15846, 2713, 1987>>, <<-1, -53, 16150, 7458, 3540, 1978>>,
      <<-1, -53, 15231, 3449, 10878, 1968>>, <<-1, -53, 6943, 14831, 8390, 1958>>,
      <<-1, -53, 5376, 3345, 12513, 1947>>, <<-1, -53, 13516, 12282, 6914, 1936>>,
      <<-1, -53, 11547, 2376, 8036, 1924>>, <<-1, -53, 14341, 15358, 15936, 1911>>,
      <<-1, -53, 2904, 9823, 14295, 1898>>, <<-1, -53, 9840, 8369, 3177, 1885>>,
      <<-1, -53, 16279, 15357, 15418, 1870>>, <<-1, -53, 5990, 183, 1939, 1856>>,
      <<-1, -53, 14538, 11608, 11963, 1840>>, <<-1, -53, 11374, 13556, 12801, 1824>>,
      <<-1, -53, 9993, 15796, 4532, 1808>>, <<-1, -53, 14789, 8012, 3623, 1791>>,
      <<-1, -53, 3242, 8545, 10158, 1773>>, <<-1, -53, 10974, 14811, 7841, 1755>>,
      <<-1, -53, 10566, 2870, 13148, 1736>>, <<-1, -53, 12254, 8888, 9786, 1717>>,
      <<-1, -53, 11940, 13987, 14236, 1697>>, <<-1, -53, 1863, 9302, 10213, 1677>>,
      <<-1, -53, 13481, 11871, 14201, 1656>>, <<-1, -53, 14870, 14985, 9920, 1635>>,
      <<-1, -53, 9168, 4049, 13861, 1613>>, <<-1, -53, 8999, 5206, 9747, 1591>>,
      <<-1, -53, 4154, 2877, 14074, 1568>>, <<-1, -53, 7224, 4740, 10571, 1545>>,
      <<-1, -53, 16069, 8398, 15738, 1521>>, <<-1, -53, 10625, 801, 13310, 1497>>,
      <<-1, -53, 3384, 6805, 3406, 1473>>, <<-1, -53, 15310, 6652, 2534, 1448>>,
      <<-1, -53, 13075, 897, 10819, 1422>>, <<-1, -53, 7209, 9778, 12003, 1396>>,
      <<-1, -53, 3031, 7048, 6217, 1370>>, <<-1, -53, 4053, 1249, 9976, 1343>>,
      <<-1, -53, 5663, 2288, 7029, 1316>>, <<-1, -53, 15041, 4385, 13896, 1288>>,
      <<-1, -53, 2360, 1783, 14331, 1260>>, <<-1, -53, 16054, 4438, 8473, 1232>>,
      <<-1, -53, 6752, 4565, 12848, 1203>>, <<-1, -53, 2428, 8689, 11215, 1174>>,
      <<-1, -53, 15632, 4167, 3720, 1145>>, <<-1, -53, 14108, 7617, 6893, 1115>>,
      <<-1, -53, 7467, 15027, 4499, 1085>>, <<-1, -53, 7958, 1015, 13074, 1054>>,
      <<-1, -53, 4, 0, 0, 1024>>, <<-1, -54, 8426, 14270, 12782, 1985>>,
      <<-1, -54, 4217, 4241, 15655, 1922>>, <<-1, -54, 7684, 11539, 8930, 1859>>,
      <<-1, -54, 1487, 11000, 9309, 1795>>, <<-1, -54, 6223, 7390, 727, 1731>>,
      <<-1, -54, 6864, 1048, 16274, 1665>>, <<-1, -54, 16301, 2659, 7122, 1600>>,
      <<-1, -54, 5767, 15254, 6366, 1534>>, <<-1, -54, 4933, 16187, 14337, 1467>>,
      <<-1, -54, 3059, 4648, 14983, 1400>>, <<-1, -54, 3548, 3, 8637, 1333>>,
      <<-1, -54, 10579, 7359, 12019, 1265>>, <<-1, -54, 5583, 15887, 9084, 1197>>,
      <<-1, -54, 3621, 13514, 173, 1129>>, <<-1, -54, 1679, 1612, 2012, 1060>>,
      <<-1, -55, 14626, 2962, 13503, 1981>>, <<-1, -55, 1665, 6967, 13091, 1842>>,
      <<-1, -55, 6409, 12553, 3482, 1703>>, <<-1, -55, 8778, 13785, 1757, 1563>>,
      <<-1, -55, 13195, 14381, 8615, 1422>>, <<-1, -55, 4990, 7841, 8374, 1281>>,
      <<-1, -55, 7721, 6710, 1737, 1140>>, <<-1, -56, 8897, 12605, 11588, 1996>>,
      <<-1, -56, 5992, 11505, 9737, 1712>>, <<-1, -56, 269, 8970, 15723, 1427>>,
      <<-1, -56, 4416, 13737, 14582, 1142>>, <<-1, -57, 2395, 9151, 15476, 1714>>,
      <<-1, -57, 7186, 10207, 9612, 1143>>, <<-1, -58, 7468, 11815, 12466, 1143>>,
      <<-1, -104, 7175, 3153, 8803, 1129>>>>

\* Math.cos(degreesToRadians(d)) for d = 0, 1, ..., 360
CosTable ==
    <<<<1, -52, 0, 0, 0, 1024>>, <<1, -53, 12170, 8150, 11273, 2047>>,
      <<1, -53, 1383, 8956, 12327, 2046>>, <<1, -53, 9757, 13387, 3166, 2045>>,
      <<1, -53, 16374, 1475, 183, 2043>>, <<1, -53, 5538, 4192, 3387, 2040>>,
      <<1, -53, 10182, 5089, 12793, 2036>>, <<1, -53, 16011, 5768, 12034, 2032>>,
      <<1, -53, 5242, 9410, 1130, 2028>>, <<1, -53, 9308, 4287, 12873, 2022>>,
      <<1, -53, 7191, 12804, 14520, 2016>>, <<1, -53, 14018, 9442, 6102, 2010>>,
      <<1, -53, 128, 2536, 4035, 2003>>, <<1, -53, 1807, 1338, 8354, 1995>>,
      <<1, -53, 14885, 15846, 2713, 1987>>, <<1, -53, 16149, 7458, 3540, 1978>>,
      <<1, -53, 15232, 3449, 10878, 1968>>, <<1, -53, 6943, 14831, 8390, 1958>>,
      <<1, -53, 5375, 3345, 12513, 1947>>, <<1, -53, 13515, 12282, 6914, 1936>>,
      <<1, -53, 11548, 2376, 8036, 1924>>, <<1, -53, 14341, 15358, 15936, 1911>>,
      <<1, -53, 2904, 9823, 14295, 1898>>, <<1, -53, 9839, 8369, 3177, 1885>>,
      <<1, -53, 16277, 15357, 15418, 1870>>, <<1, -53, 5991, 183, 1939, 1856>>,
      <<1, -53, 14538, 11608, 11963, 1840>>, <<1, -53, 11373, 13556, 12801, 1824>>,
      <<1, -53, 9992, 15796, 4532, 1808>>, <<1, -53, 14790, 8012, 3623, 1791>>,
      <<1, -53, 3243, 8545, 10158, 1773>>, <<1, -53, 10974, 14811, 7841, 1755>>,
      <<1, -53, 10565, 2870, 13148, 1736>>, <<1, -53, 12252, 8888, 9786, 1717>>,
      <<1, -53, 11940, 13987, 14236, 1697>>, <<1, -53, 1863, 9302, 10213, 1677>>,
      <<1, -53, 13480, 11871, 14201, 1656>>, <<1, -53, 14868, 14985, 9920, 1635>>,
      <<1, -53, 9169, 4049, 13861, 1613>>, <<1, -53, 9000, 5206, 9747, 1591>>,
      <<1, -53, 4153, 2877, 14074, 1568>>, <<1, -53, 7223, 4740, 10571, 1545>>,
      <<1, -53, 16066, 8398, 15738, 1521>>, <<1, -53, 10626, 801, 13310, 1497>>,
      <<1, -53, 3385, 6805, 3406, 1473>>, <<1, -53, 15309, 6652, 2534, 1448>>,
      <<1, -53, 13072, 897, 10819, 1422>>, <<1, -53, 7211, 9778, 12003, 1396>>,
      <<1, -53, 3032, 7048, 6217, 1370>>, <<1, -53, 4052, 1249, 9976, 1343>>,
      <<1, -53, 5661, 2288, 7029, 1316>>, <<1, -53, 15038, 4385, 13896, 1288>>,
      <<1, -53, 2361, 1783, 14331, 1260>>, <<1, -53, 16054, 4438, 8473, 1232>>,
      <<1, -53, 6750, 4565, 12848, 1203>>, <<1, -53, 2424, 8689, 11215, 1174>>,
      <<1, -53, 15634, 4167, 3720, 1145>>, <<1, -53, 14109, 7617, 6893, 1115>>,
      <<1, -53, 7466, 15027, 4499, 1085>>, <<1, -53, 7955, 1015, 13074, 1054>>,
      <<1, -53, 1, 0, 0, 1024>>, <<1, -54, 8430, 14270, 12782, 1985>>,
      <<1, -54, 4218, 4241, 15655, 1922>>, <<1, -54, 7682, 11539, 8930, 1859>>,
      <<1, -54, 1481, 11000, 9309, 1795>>, <<1, -54, 6227, 7390, 727, 1731>>,
      <<1, -54, 6865, 1048, 16274, 1665>>, <<1, -54, 16298, 2659, 7122, 1600>>,
      <<1, -54, 5760, 15254, 6366, 1534>>, <<1, -54, 4926, 16187, 14337, 1467>>,
      <<1, -54, 3063, 4648, 14983, 1400>>, <<1, -54, 3549, 3, 8637, 1333>>,
      <<1, -54, 10576, 7359, 12019, 1265>>, <<1, -54, 5576, 15887, 9084, 1197>>,
      <<1, -54, 3625, 13514, 173, 1129>>, <<1, -54, 1680, 1612, 2012, 1060>>,
      <<1, -55, 14619, 2962, 13503, 1981>>, <<1, -55, 1650, 6967, 13091, 1842>>,
      <<1, -55, 6394, 12553, 3482, 1703>>, <<1, -55, 8787, 13785, 1757, 1563>>,
      <<1, -55, 13196, 14381, 8615, 1422>>, <<1, -55, 4983, 7841, 8374, 1281>>,
      <<1, -55, 7706, 6710, 1737, 1140>>, <<1, -56, 8916, 12605, 11588, 1996>>,
      <<1, -56, 5995, 11505, 9737, 1712>>, <<1, -56, 256, 8970, 15723, 1427>>,
      <<1, -56, 4387, 13737, 14582, 1142>>, <<1, -57, 2337, 9151, 15476, 1714>>,
      <<1, -57, 7223, 10207, 9612, 1143>>, <<1, -58, 7479, 11815, 12466, 1143>>,
      <<1, -106, 7175, 3153, 8803, 1129>>, <<-1, -58, 7444, 11815, 12466, 1143>>,
      <<-1, -57, 7205, 10207, 9612, 1143>>, <<-1, -57, 2319, 9151, 15476, 1714>>,
      <<-1, -56, 4394, 13737, 14582, 1142>>, <<-1, -56, 263, 8970, 15723, 1427>>,
      <<-1, -56, 6002, 11505, 9737, 1712>>, <<-1, -56, 8907, 12605, 11588, 1996>>,
      <<-1, -55, 7702, 6710, 1737, 1140>>, <<-1, -55, 4979, 7841, 8374, 1281>>,
      <<-1, -55, 13192, 14381, 8615, 1422>>, <<-1, -55, 8783, 13785, 1757, 1563>>,
      <<-1, -55, 6390, 12553, 3482, 1703>>, <<-1, -55, 1654, 6967, 13091, 1842>>,
      <<-1, -55, 14623, 2962, 13503, 1981>>, <<-1, -54, 1682, 1612, 2012, 1060>>,
      <<-1, -54, 3623, 13514, 173, 1129>>, <<-1, -54, 5574, 15887, 9084, 1197>>,
      <<-1, -54, 10574, 7359, 12019, 1265>>, <<-1, -54, 3547, 3, 8637, 1333>>,
      <<-1, -54, 3061, 4648, 14983, 1400>>, <<-1, -54, 4924, 16187, 14337, 1467>>,
      <<-1, -54, 5762, 15254, 6366, 1534>>, <<-1, -54, 16299, 2659, 7122, 1600>>,
      <<-1, -54, 6866, 1048, 16274, 1665>>, <<-1, -54, 6225, 7390, 727, 1731>>,
      <<-1, -54, 1482, 11000, 9309, 1795>>, <<-1, -54, 7680, 11539, 8930, 1859>>,
      <<-1, -54, 4219, 4241, 15655, 1922>>, <<-1, -54, 8428, 14270, 12782, 1985>>,
      <<-1, -54, 16380, 16383, 16383, 2047>>, <<-1, -53, 7956, 1015, 13074, 1054>>,
      <<-1, -53, 7465, 15027, 4499, 1085>>, <<-1, -53, 14109, 7617, 6893, 1115>>,
      <<-1, -53, 15633, 4167, 3720, 1145>>, <<-1, -53, 2425, 8689, 11215, 1174>>,
      <<-1, -53, 6749, 4565, 12848, 1203>>, <<-1, -53, 16055, 4438, 8473, 1232>>,
      <<-1, -53, 2361, 1783, 14331, 1260>>, <<-1, -53, 15036, 4385, 13896, 1288>>,
      <<-1, -53, 5661, 2288, 7029, 1316>>, <<-1, -53, 4051, 1249, 9976, 1343>>,
      <<-1, -53, 3032, 7048, 6217, 1370>>, <<-1, -53, 7210, 9778, 12003, 1396>>,
      <<-1, -53, 13073, 897, 10819, 1422>>, <<-1, -53, 15308, 6652, 2534, 1448>>,
      <<-1, -53, 3386, 6805, 3406, 1473>>, <<-1, -53, 10626, 801, 13310, 1497>>,
      <<-1, -53, 16065, 8398, 15738, 1521>>, <<-1, -53, 7223, 4740, 10571, 1545>>,
      <<-1, -53, 4152, 2877, 14074, 1568>>, <<-1, -53, 9000, 5206, 9747, 1591>>,
      <<-1, -53, 9169, 4049, 13861, 1613>>, <<-1, -53, 14869, 14985, 9920, 1635>>,
      <<-1, -53, 13479, 11871, 14201, 1656>>, <<-1, -53, 1864, 9302, 10213, 1677>>,
      <<-1, -53, 11940, 13987, 14236, 1697>>, <<-1, -53, 12251, 8888, 9786, 1717>>,
      <<-1, -53, 10565, 2870, 13148, 1736>>, <<-1, -53, 10973, 14811, 7841, 1755>>,
      <<-1, -53, 3243, 8545, 10158, 1773>>, <<-1, -53, 14790, 8012, 3623, 1791>>,
      <<-1, -53, 9992, 15796, 4532, 1808>>, <<-1, -53, 11372, 13556, 12801, 1824>>,
      <<-1, -53, 14538, 11608, 11963, 1840>>, <<-1, -53, 5991, 183, 1939, 1856>>,
      <<-1, -53, 16276, 15357, 15418, 1870>>, <<-1, -53, 9839, 8369, 3177, 1885>>,
      <<-1, -53, 2903, 9823, 14295, 1898>>, <<-1, -53, 14341, 15358, 15936, 1911>>,
      <<-1, -53, 11547, 2376, 8036, 1924>>, <<-1, -53, 13515, 12282, 6914, 1936>>,
      <<-1, -53, 5375, 3345, 12513, 1947>>, <<-1, -53, 6944, 14831, 8390, 1958>>,
      <<-1, -53, 15232, 3449, 10878, 1968>>, <<-1, -53, 16148, 7458, 3540, 1978>>,
      <<-1, -53, 14885, 15846, 2713, 1987>>, <<-1, -53, 1806, 1338, 8354, 1995>>,
      <<-1, -53, 128, 2536, 4035, 2003>>, <<-1, -53, 14018, 9442, 6102, 2010>>,
      <<-1, -53, 7191, 12804, 14520, 2016>>, <<-1, -53, 9307, 4287, 12873, 2022>>,
      <<-1, -53, 5242, 9410, 1130, 2028>>, <<-1, -53, 16011, 5768, 12034, 2032>>,
      <<-1, -53, 10182, 5089, 12793, 2036>>, <<-1, -53, 5538, 4192, 3387, 2040>>,
      <<-1, -53, 16374, 1475, 183, 2043>>, <<-1, -53, 9757, 13387, 3166, 2045>>,
      <<-1, -53, 1383, 8956, 12327, 2046>>, <<-1, -53, 12170, 8150, 11273, 2047>>,
      <<-1, -52, 0, 0, 0, 1024>>, <<-1, -53, 12170, 8150, 11273, 2047>>,
      <<-1, -53, 1383, 8956, 12327, 2046>>, <<-1, -53, 9757, 13387, 3166, 2045>>,
      <<-1, -53, 16374, 1475, 183, 2043>>, <<-1, -53, 5538, 4192, 3387, 2040>>,
      <<-1, -53, 10182, 5089, 12793, 2036>>, <<-1, -53, 16012, 5768, 12034, 2032>>,
      <<-1, -53, 5241, 9410, 1130, 2028>>, <<-1, -53, 9308, 4287, 12873, 2022>>,
      <<-1, -53, 7191, 12804, 14520, 2016>>, <<-1, -53, 14018, 9442, 6102, 2010>>,
      <<-1, -53, 127, 2536, 4035, 2003>>, <<-1, -53, 1807, 1338, 8354, 1995>>,
      <<-1, -53, 14886, 15846, 2713, 1987>>, <<-1, -53, 16149, 7458, 3540, 1978>>,
      <<-1, -53, 15232, 3449, 10878, 1968>>, <<-1, -53, 6943, 14831, 8390, 1958>>,
      <<-1, -53, 5376, 3345, 12513, 1947>>, <<-1, -53, 13514, 12282, 6914, 1936>>,
      <<-1, -53, 11548, 2376, 8036, 1924>>, <<-1, -53, 14341, 15358, 15936, 1911>>,
      <<-1, -53, 2904, 9823, 14295, 1898>>, <<-1, -53, 9839, 8369, 3177, 1885>>,
      <<-1, -53, 16277, 15357, 15418, 1870>>, <<-1, -53, 5992, 183, 1939, 1856>>,
      <<-1, -53, 14537, 11608, 11963, 1840>>, <<-1, -53, 11373, 13556, 12801, 1824>>,
      <<-1, -53, 9991, 15796, 4532, 1808>>, <<-1, -53, 14791, 8012, 3623, 1791>>,
      <<-1, -53, 3242, 8545, 10158, 1773>>, <<-1, -53, 10974, 14811, 7841, 1755>>,
      <<-1, -53, 10566, 2870, 13148, 1736>>, <<-1, -53, 12252, 8888, 9786, 1717>>,
      <<-1, -53, 11942, 13987, 14236, 1697>>, <<-1, -53, 1863, 9302, 10213, 1677>>,
      <<-1, -53, 13480, 11871, 14201, 1656>>, <<-1, -53, 14868, 14985, 9920, 1635>>,
      <<-1, -53, 9170, 4049, 13861, 1613>>, <<-1, -53, 8999, 5206, 9747, 1591>>,
      <<-1, -53, 4154, 2877, 14074, 1568>>, <<-1, -53, 7224, 4740, 10571, 1545>>,
      <<-1, -53, 16066, 8398, 15738, 1521>>, <<-1, -53, 10627, 801, 13310, 1497>>,
      <<-1, -53, 3384, 6805, 3406, 1473>>, <<-1, -53, 15310, 6652, 2534, 1448>>,
      <<-1, -53, 13072, 897, 10819, 1422>>, <<-1, -53, 7212, 9778, 12003, 1396>>,
      <<-1, -53, 3031, 7048, 6217, 1370>>, <<-1, -53, 4052, 1249, 9976, 1343>>,
      <<-1, -53, 5662, 2288, 7029, 1316>>, <<-1, -53, 15041, 4385, 13896, 1288>>,
      <<-1, -53, 2359, 1783, 14331, 1260>>, <<-1, -53, 16054, 4438, 8473, 1232>>,
      <<-1, -53, 6751, 4565, 12848, 1203>>, <<-1, -53, 2427, 8689, 11215, 1174>>,
      <<-1, -53, 15632, 4167, 3720, 1145>>, <<-1, -53, 14108, 7617, 6893, 1115>>,
      <<-1, -53, 7467, 15027, 4499, 1085>>, <<-1, -53, 7958, 1015, 13074, 1054>>,
      <<-1, -53, 4, 0, 0, 1024>>, <<-1, -54, 8425, 14270, 12782, 1985>>,
      <<-1, -54, 4216, 4241, 15655, 1922>>, <<-1, -54, 7683, 11539, 8930, 1859>>,
      <<-1, -54, 1486, 11000, 9309, 1795>>, <<-1, -54, 6222, 7390, 727, 1731>>,
      <<-1, -54, 6863, 1048, 16274, 1665>>, <<-1, -54, 16300, 2659, 7122, 1600>>,
      <<-1, -54, 5766, 15254, 6366, 1534>>, <<-1, -54, 4932, 16187, 14337, 1467>>,
      <<-1, -54, 3058, 4648, 14983, 1400>>, <<-1, -54, 3547, 3, 8637, 1333>>,
      <<-1, -54, 10578, 7359, 12019, 1265>>, <<-1, -54, 5582, 15887, 9084, 1197>>,
      <<-1, -54, 3620, 13514, 173, 1129>>, <<-1, -54, 1678, 1612, 2012, 1060>>,
      <<-1, -55, 14623, 2962, 13503, 1981>>, <<-1, -55, 1662, 6967, 13091, 1842>>,
      <<-1, -55, 6406, 12553, 3482, 1703>>, <<-1, -55, 8776, 13785, 1757, 1563>>,
      <<-1, -55, 13193, 14381, 8615, 1422>>, <<-1, -55, 4987, 7841, 8374, 1281>>,
      <<-1, -55, 7719, 6710, 1737, 1140>>, <<-1, -56, 8893, 12605, 11588, 1996>>,
      <<-1, -56, 5988, 11505, 9737, 1712>>, <<-1, -56, 264, 8970, 15723, 1427>>,
      <<-1, -56, 4412, 13737, 14582, 1142>>, <<-1, -57, 2386, 9151, 15476, 1714>>,
      <<-1, -57, 7177, 10207, 9612, 1143>>, <<-1, -58, 7450, 11815, 12466, 1143>>,
      <<-1, -105, 2570, 12922, 5012, 1694>>, <<1, -58, 7344, 11815, 12466, 1143>>,
      <<1, -57, 7252, 10207, 9612, 1143>>, <<1, -57, 2334, 9151, 15476, 1714>>,
      <<1, -56, 4386, 13737, 14582, 1142>>, <<1, -56, 238, 8970, 15723, 1427>>,
      <<1, -56, 5961, 11505, 9737, 1712>>, <<1, -56, 8930, 12605, 11588, 1996>>,
      <<1, -55, 7706, 6710, 1737, 1140>>, <<1, -55, 4974, 7841, 8374, 1281>>,
      <<1, -55, 13180, 14381, 8615, 1422>>, <<1, -55, 8794, 13785, 1757, 1563>>,
      <<1, -55, 6393, 12553, 3482, 1703>>, <<1, -55, 1650, 6967, 13091, 1842>>,
      <<1, -55, 14611, 2962, 13503, 1981>>, <<1, -54, 1672, 1612, 2012, 1060>>,
      <<1, -54, 3629, 13514, 173, 1129>>, <<1, -54, 5575, 15887, 9084, 1197>>,
      <<1, -54, 10572, 7359, 12019, 1265>>, <<1, -54, 3541, 3, 8637, 1333>>,
      <<1, -54, 3066, 4648, 14983, 1400>>, <<1, -54, 4926, 16187, 14337, 1467>>,
      <<1, -54, 5760, 15254, 6366, 1534>>, <<1, -54, 16294, 2659, 7122, 1600>>,
      <<1, -54, 6857, 1048, 16274, 1665>>, <<1, -54, 6230, 7390, 727, 1731>>,
      <<1, -54, 1480, 11000, 9309, 1795>>, <<1, -54, 7678, 11539, 8930, 1859>>,
      <<1, -54, 4210, 4241, 15655, 1922>>, <<1, -54, 8433, 14270, 12782, 1985>>,
      <<1, -53, 1, 0, 0, 1024>>, <<1, -53, 7955, 1015, 13074, 1054>>,
      <<1, -53, 7464, 15027, 4499, 1085>>, <<1, -53, 14105, 7617, 6893, 1115>>,
      <<1, -53, 15636, 4167, 3720, 1145>>, <<1, -53, 2424, 8689, 11215, 1174>>,
      <<1, -53, 6748, 4565, 12848, 1203>>, <<1, -53, 16051, 4438, 8473, 1232>>,
      <<1, -53, 2363, 1783, 14331, 1260>>, <<1, -53, 15038, 4385, 13896, 1288>>,
      <<1, -53, 5660, 2288, 7029, 1316>>, <<1, -53, 4050, 1249, 9976, 1343>>,
      <<1, -53, 3028, 7048, 6217, 1370>>, <<1, -53, 7212, 9778, 12003, 1396>>,
      <<1, -53, 13072, 897, 10819, 1422>>, <<1, -53, 15307, 6652, 2534, 1448>>,
      <<1, -53, 3382, 6805, 3406, 1473>>, <<1, -53, 10628, 801, 13310, 1497>>,
      <<1, -53, 16066, 8398, 15738, 1521>>, <<1, -53, 7222, 4740, 10571, 1545>>,
      <<1, -53, 4151, 2877, 14074, 1568>>, <<1, -53, 8997, 5206, 9747, 1591>>,
      <<1, -53, 9170, 4049, 13861, 1613>>, <<1, -53, 14868, 14985, 9920, 1635>>,
      <<1, -53, 13479, 11871, 14201, 1656>>, <<1, -53, 1861, 9302, 10213, 1677>>,
      <<1, -53, 11942, 13987, 14236, 1697>>, <<1, -53, 12252, 8888, 9786, 1717>>,
      <<1, -53, 10564, 2870, 13148, 1736>>, <<1, -53, 10972, 14811, 7841, 1755>>,
      <<1, -53, 3240, 8545, 10158, 1773>>, <<1, -53, 14791, 8012, 3623, 1791>>,
      <<1, -53, 9992, 15796, 4532, 1808>>, <<1, -53, 11372, 13556, 12801, 1824>>,
      <<1, -53, 14536, 11608, 11963, 1840>>, <<1, -53, 5992, 183, 1939, 1856>>,
      <<1, -53, 16278, 15357, 15418, 1870>>, <<1, -53, 9838, 8369, 3177, 1885>>,
      <<1, -53, 2903, 9823, 14295, 1898>>, <<1, -53, 14339, 15358, 15936, 1911>>,
      <<1, -53, 11548, 2376, 8036, 1924>>, <<1, -53, 13515, 12282, 6914, 1936>>,
      <<1, -53, 5375, 3345, 12513, 1947>>, <<1, -53, 6942, 14831, 8390, 1958>>,
      <<1, -53, 15232, 3449, 10878, 1968>>, <<1, -53, 16149, 7458, 3540, 1978>>,
      <<1, -53, 14885, 15846, 2713, 1987>>, <<1, -53, 1806, 1338, 8354, 1995>>,
      <<1, -53, 127, 2536, 4035, 2003>>, <<1, -53, 14018, 9442, 6102, 2010>>,
      <<1, -53, 7191, 12804, 14520, 2016>>, <<1, -53, 9307, 4287, 12873, 2022>>,
      <<1, -53, 5241, 9410, 1130, 2028>>, <<1, -53, 16012, 5768, 12034, 2032>>,
      <<1, -53, 10182, 5089, 12793, 2036>>, <<1, -53, 5538, 4192, 3387, 2040>>,
      <<1, -53, 16374, 1475, 183, 2043>>, <<1, -53, 9757, 13387, 3166, 2045>>,
      <<1, -53, 1383, 8956, 12327, 2046>>, <<1, -53, 12170, 8150, 11273, 2047>>,
      <<1, -52, 0, 0, 0, 1024>>>>

Sin(deg) == fromTable(SinTable[deg + 1])

Cos(deg) == fromTable(CosTable[deg + 1])

(***************************************************************************)
(* utils/math: distance(x1, y1, x2, y2) = Math.sqrt(dx * dx + dy * dy)     *)
(* with dx = x2 - x1 and dy = y2 - y1, for coordinates of pixels.          *)
(***************************************************************************)
distance(x1, y1, x2, y2) ==
    FSqrt(FFromInt((x2 - x1) * (x2 - x1) + (y2 - y1) * (y2 - y1)))

(***************************************************************************)
(* DistanceTransform.compute.  The distances are kept in a Float32Array:   *)
(* every Number stored is rounded to binary32.                             *)
(***************************************************************************)
\* the loop `for (const point of contactLine.points)' from point k on
RECURSIVE minDistFrom(_, _, _, _, _)
minDistFrom(points, k, x, y, minDist) ==
    IF k > Len(points) THEN minDist
    ELSE minDistFrom(points, k + 1, x, y,
            FMin(minDist, distance(x, y, points[k].x, points[k].y)))

\* a transform that measures only to the contact point of the pixel's column
RECURSIVE ownColumnDistFrom(_, _, _, _, _)
ownColumnDistFrom(points, k, x, y, minDist) ==
    IF k > Len(points) THEN minDist
    ELSE ownColumnDistFrom(points, k + 1, x, y,
            IF points[k].x = x
            THEN FMin(minDist, distance(x, y, points[k].x, points[k].y))
            ELSE minDist)

nearestContactOwnColumn(points, x, y) ==
    ownColumnDistFrom(points, 1, x, y, Infinity)

\* a loop that starts at the second point
nearestContactSkippingFirst(points, x, y) ==
    minDistFrom(points, 2, x, y, Infinity)

nearestContact(points, x, y) == minDistFrom(points, 1, x, y, Infinity)

\* a transform without the early return for an empty contact line
computeWithoutEmptyCheck(mask, contactLine, width, height) ==
    [data |->
        [idx \in Indices(width, height) |->
            IF mask[idx] = 0 THEN FZero
            ELSE FToFloat32(nearestContact(contactLine.points,
                                XOf(idx, width), YOf(idx, width)))],
     width |-> width, height |-> height]

compute(mask, contactLine, width, height) ==
    [data |->
        IF Len(contactLine.points) = 0
        THEN [idx \in Indices(width, height) |-> FZero]
        ELSE [idx \in Indices(width, height) |->
                IF mask[idx] = 0 THEN FZero
                ELSE FToFloat32(nearestContact(contactLine.points,
                                    XOf(idx, width), YOf(idx, width)))],
     width |-> width, height |-> height]

(***************************************************************************)
(* LightVectorCalculator                                                   *)
(***************************************************************************)
\* a light vector with sine and cosine of the angle exchanged
calculateSwapped(angleDegrees, elevationDegrees) ==
    [dx |-> FMul(Sin(angleDegrees), Cos(elevationDegrees)),
     dy |-> FMul(Cos(angleDegrees), Cos(elevationDegrees)),
     dz |-> Sin(elevationDegrees)]

calculate(angleDegrees, elevationDegrees) ==
    [dx |-> FMul(Cos(angleDegrees), Cos(elevationDegrees)),
     dy |-> FMul(Sin(angleDegrees), Cos(elevationDegrees)),
     dz |-> Sin(elevationDegrees)]

MinSinElevation == 100

\* a clamp at 0.01 instead of 0.1
getShadowLengthMultiplierLooseClamp(elevationDegrees) ==
    FDiv(FOne, FMax(FFromFx(10), Sin(elevationDegrees)))

getShadowLengthMultiplier(elevationDegrees) ==
    FDiv(FOne, FMax(FFromFx(MinSinElevation), Sin(elevationDegrees)))

\* a suggestion whose opacity rises with the elevation
getSuggestedShadowParamsRising(elevationDegrees) ==
    LET elevationNorm == FDiv(FFromInt(elevationDegrees), FFromInt(90))
    IN [contactOpacity |-> FAdd(FFromFx(900), FMul(elevationNorm, FFromFx(300))),
        falloffRate |-> FAdd(FFromInt(3), FMul(elevationNorm, FFromInt(2)))]

\* contactOpacity = 0.9 - elevationNorm * 0.3, falloffRate = 3 +
\* elevationNorm * 2 with elevationNorm = elevationDegrees / 90
getSuggestedShadowParams(elevationDegrees) ==
    LET elevationNorm == FDiv(FFromInt(elevationDegrees), FFromInt(90))
    IN [contactOpacity |-> FSub(FFromFx(900), FMul(elevationNorm, FFromFx(300))),
        falloffRate |-> FAdd(FFromInt(3), FMul(elevationNorm, FFromInt(2)))]

(***************************************************************************)
(* ShadowGenerator.getDefaultConfig(lightAngle = 135, lightElevation = 45) *)
(***************************************************************************)
DefaultLightAngle == 135
DefaultLightElevation == 45

getDefaultConfig(lightAngle, lightElevation) ==
    LET angle == IF lightAngle = ArgOmitted
                 THEN DefaultLightAngle ELSE lightAngle
        elevation == IF lightElevation = ArgOmitted
                     THEN DefaultLightElevation ELSE lightElevation
        suggested == getSuggestedShadowParams(elevation)
    IN [lightAngle |-> angle,
        lightElevation |-> elevation,
        maxShadowDistance |-> FFromInt(150),
        contactOpacity |-> suggested.contactOpacity,
        falloffRate |-> suggested.falloffRate,
        minBlurRadius |-> FFromInt(1),
        maxBlurRadius |-> FFromInt(10)]

(***************************************************************************)
(* ShadowProjector.drawLine.  The start (x0, y0) is a pixel, the end       *)
(* (x1, y1) a pair of Numbers, as are dx, dy and err.  The loop leaves     *)
(* only when the current cell is the rounded end point; each iteration     *)
(* moves x by sx or y by sy (or both), so once a coordinate has passed the *)
(* end point the loop never leaves: that outcome is reported as hung.      *)
(***************************************************************************)
\* a bounds test that lets the column x = width through
InBoundsUpToEdge(x, y, width, height) ==
    x >= 0 /\ x <= width /\ y >= 0 /\ y < height

InBounds(x, y, width, height) == x >= 0 /\ x < width /\ y >= 0 /\ y < height

RECURSIVE traceLine(_, _, _, _, _, _, _, _, _, _, _, _)
traceLine(buffer, width, height, x, y, endX, endY, dx, dy, sx, sy, err) ==
    LET marked == IF InBounds(x, y, width, height)
                  THEN [buffer EXCEPT ![y * width + x] = 1]
                  ELSE buffer
        e2 == FMul(FFromInt(2), err)
        stepX == FLt(FNeg(dy), e2)
        stepY == FLt(e2, dx)
        err1 == IF stepX THEN FSub(err, dy) ELSE err
        err2 == IF stepY THEN FAdd(err1, dx) ELSE err1
    IN IF x = endX /\ y = endY THEN [buffer |-> marked, hung |-> FALSE]
       ELSE IF (x - endX) * sx > 0 \/ (y - endY) * sy > 0
            THEN [buffer |-> marked, hung |-> TRUE]
       ELSE traceLine(marked, width, height,
                      IF stepX THEN x + sx ELSE x,
                      IF stepY THEN y + sy ELSE y,
                      endX, endY, dx, dy, sx, sy, err2)

drawLine(buffer, width, height, x0, y0, x1, y1) ==
    LET dx == FAbs(FSub(x1, FFromInt(x0)))
        dy == FAbs(FSub(y1, FFromInt(y0)))
        sx == IF FLt(FFromInt(x0), x1) THEN 1 ELSE -1
        sy == IF FLt(FFromInt(y0), y1) THEN 1 ELSE -1
    IN traceLine(buffer, width, height, x0, y0,
                 FMathRound(x1), FMathRound(y1), dx, dy, sx, sy, FSub(dx, dy))

(***************************************************************************)
(* ShadowProjector.project and removeOcclusions                            *)
(***************************************************************************)
\* a warp with the depth inverted: 1.5 for the nearest pixels, 1 for the
\* farthest
warpFactorInverted(depthMap, idx) ==
    IF IsPresent(depthMap)
    THEN LET depth == FDiv(FFromInt(255 - depthMap.data[idx].r), FFromInt(255))
         IN FAdd(FOne, FMul(depth, FHalf))
    ELSE FOne

\* warp = 1.0 + (red / 255) * 0.5, and 1.0 without a depth map
warpFactor(depthMap, idx) ==
    IF IsPresent(depthMap)
    THEN LET depth == FDiv(FFromInt(depthMap.data[idx].r), FFromInt(255))
         IN FAdd(FOne, FMul(depth, FHalf))
    ELSE FOne

\* a projection whose end point lies toward the light (sign of the offset)
RECURSIVE projectFromTowardLight(_, _, _, _, _, _, _, _, _)
projectFromTowardLight(mask, width, height, lightVector, maxDistance, depthMap, idx, shadowMask, hung) ==
    IF idx >= NumPixels(width, height) \/ hung
    THEN [data |-> shadowMask, hung |-> hung]
    ELSE IF mask[idx] = 0
    THEN projectFromTowardLight(mask, width, height, lightVector, maxDistance,
                                depthMap, idx + 1, shadowMask, hung)
    ELSE LET x == XOf(idx, width)
             y == YOf(idx, width)
             warp == warpFactor(depthMap, idx)
             projX == FAdd(FFromInt(x),
                           FMul(FMul(lightVector.dx, maxDistance), warp))
             projY == FAdd(FFromInt(y),
                           FMul(FMul(lightVector.dy, maxDistance), warp))
             line == drawLine(shadowMask, width, height, x, y, projX, projY)
         IN projectFromTowardLight(mask, width, height, lightVector,
                                   maxDistance, depthMap, idx + 1,
                                   line.buffer, line.hung)

RECURSIVE projectFrom(_, _, _, _, _, _, _, _, _)
projectFrom(mask, width, height, lightVector, maxDistance, depthMap, idx, shadowMask, hung) ==
    IF idx >= NumPixels(width, height) \/ hung
    THEN [data |-> shadowMask, hung |-> hung]
    ELSE IF mask[idx] = 0
    THEN projectFrom(mask, width, height, lightVector, maxDistance, depthMap,
                     idx + 1, shadowMask, hung)
    ELSE LET x == XOf(idx, width)
             y == YOf(idx, width)
             warp == warpFactor(depthMap, idx)
             projX == FSub(FFromInt(x),
                           FMul(FMul(lightVector.dx, maxDistance), warp))
             projY == FSub(FFromInt(y),
                           FMul(FMul(lightVector.dy, maxDistance), warp))
             line == drawLine(shadowMask, width, height, x, y, projX, projY)
         IN projectFrom(mask, width, height, lightVector, maxDistance,
                        depthMap, idx + 1, line.buffer, line.hung)

project(mask, width, height, lightVector, maxDistance, depthMap) ==
    projectFrom(mask, width, height, lightVector, maxDistance, depthMap,
                0, [idx \in Indices(width, height) |-> 0], FALSE)

\* the iterations of the outer loop `for (let y ...)' of project for one
\* source row: the cells of the shadow mask they write.  drawLine reads
\* nothing from the buffer, so these are the cells project marks on the
\* mask reduced to that row.
RowOnly(mask, width, row) ==
    [idx \in DOMAIN mask |-> IF YOf(idx, width) = row THEN mask[idx] ELSE 0]

rowWrites(mask, width, height, lightVector, maxDistance, depthMap, row) ==
    LET cells == project(RowOnly(mask, width, row), width, height,
                         lightVector, maxDistance, depthMap).data
    IN {idx \in DOMAIN cells : cells[idx] = 1}

\* a copy of the shadow mask that leaves the silhouette test out
removeOcclusionsKeepAll(shadowMask, silhouetteMask, width, height) ==
    [i \in Indices(width, height) |-> IF shadowMask[i] = 1 THEN 1 ELSE 0]

\* a test that keeps the occluded shadow pixels instead of the visible ones
removeOcclusionsKeepOccluded(shadowMask, silhouetteMask, width, height) ==
    [i \in Indices(width, height) |->
        IF shadowMask[i] = 1 /\ silhouetteMask[i] = 1 THEN 1 ELSE 0]

removeOcclusions(shadowMask, silhouetteMask, width, height) ==
    [i \in Indices(width, height) |->
        IF shadowMask[i] = 1 /\ silhouetteMask[i] = 0 THEN 1 ELSE 0]

(***************************************************************************)
(* utils/math: clamp, normalize, lerp, exponentialFalloff                  *)
(***************************************************************************)
\* clamp(value, min, max) = Math.min(Math.max(value, min), max)
clamp(value, lo, hi) == FMin(FMax(value, lo), hi)

\* clamp on the integers that Math.round returns
clampInt(value, lo, hi) == Max2(lo, Min2(hi, value))

\* normalize(value, min, max) = clamp((value - min) / (max - min), 0, 1)
normalize(value, lo, hi) ==
    clamp(FDiv(FSub(value, lo), FSub(hi, lo)), FZero, FOne)

\* lerp(a, b, t) = a + (b - a) * t
lerp(a, b, t) == FAdd(a, FMul(FSub(b, a), t))

\* contactOpacity * exp(-falloffRate * (distance / maxDistance)), on Numbers
exponentialFalloff(dist, contactOpacity, falloffRate, maxDistance) ==
    FMul(contactOpacity, FExp(FMul(FNeg(falloffRate), FDiv(dist, maxDistance))))

(***************************************************************************)
(* ShadowCompositor.createShadowLayer                                      *)
(***************************************************************************)
\* the falloff of one pixel: its distance is read from the Float32Array
opacityAt(distanceMap, cfg, idx) ==
    exponentialFalloff(distanceMap.data[idx], cfg.contactOpacity,
                       cfg.falloffRate, cfg.maxShadowDistance)

\* a store that truncates the alpha, as a Uint8Array would
createShadowLayerTruncating(shadowMask, distanceMap, cfg, width, height) ==
    [idx \in Indices(width, height) |->
        IF shadowMask[idx] = 0 THEN Pixel(0, 0, 0, 0)
        ELSE LET scaled == FMul(opacityAt(distanceMap, cfg, idx),
                                FFromInt(255))
             IN Pixel(0, 0, 0, clampInt(FTrunc(scaled), 0, 255))]

\* pixels[pixelIdx + 3] = opacity * 255, stored into a Uint8ClampedArray
createShadowLayer(shadowMask, distanceMap, cfg, width, height) ==
    [idx \in Indices(width, height) |->
        IF shadowMask[idx] = 0 THEN Pixel(0, 0, 0, 0)
        ELSE LET scaled == FMul(opacityAt(distanceMap, cfg, idx),
                                FFromInt(255))
             IN Pixel(0, 0, 0, FToUint8Clamped(scaled))]

(***************************************************************************)
(* utils/imageData: alphaBlend, Porter-Duff "over" in straight alpha, with *)
(* every operation of the code on Numbers in the order the code writes it. *)
(***************************************************************************)
\* a blend that adds the source colour as if it were premultiplied
alphaBlendPremultiplied(backdrop, source) ==
    LET srcA == FDiv(FFromInt(source.a), FFromInt(255))
        dstA == FDiv(FFromInt(backdrop.a), FFromInt(255))
        rest == FSub(FOne, srcA)
        outA == FAdd(srcA, FMul(dstA, rest))
        blendChannel(s, d) ==
            clampInt(FMathRound(FAdd(FFromInt(s), FMul(FFromInt(d), rest))),
                     0, 255)
    IN Pixel(blendChannel(source.r, backdrop.r),
             blendChannel(source.g, backdrop.g),
             blendChannel(source.b, backdrop.b),
             FMathRound(FMul(outA, FFromInt(255))))

alphaBlend(backdrop, source) ==
    LET srcA == FDiv(FFromInt(source.a), FFromInt(255))
        dstA == FDiv(FFromInt(backdrop.a), FFromInt(255))
        rest == FSub(FOne, srcA)
        outA == FAdd(srcA, FMul(dstA, rest))
        blendChannel(s, d) ==
            IF FLt(FZero, outA)
            THEN FMathRound(FDiv(FAdd(FMul(FFromInt(s), srcA),
                                      FMul(FMul(FFromInt(d), dstA), rest)),
                                 outA))
            ELSE d
    IN IF FIsZero(srcA) THEN backdrop
       ELSE Pixel(blendChannel(source.r, backdrop.r),
                  blendChannel(source.g, backdrop.g),
                  blendChannel(source.b, backdrop.b),
                  FMathRound(FMul(outA, FFromInt(255))))

(***************************************************************************)
(* ShadowCompositor.composite and compositeAttachedShadow.  The result has *)
(* the dimensions of the background.                                       *)
(***************************************************************************)
\* the layers in another order: the shadow blended over the foreground
compositeShadowOnTop(background, shadow, foreground) ==
    LET blend(backdrop, source) == Apply("alphaBlend", <<backdrop, source>>)
    IN [i \in Indices(background.width, background.height) |->
           blend(blend(background.data[i], foreground.data[i]),
                 shadow.data[i])]

composite(background, shadow, foreground) ==
    LET blend(backdrop, source) == Apply("alphaBlend", <<backdrop, source>>)
    IN [i \in Indices(background.width, background.height) |->
           blend(blend(background.data[i], shadow.data[i]),
                 foreground.data[i])]

\* the mask test the other way round: the shadow only under the foreground
compositeAttachedShadowInverted(background, shadow, foreground, silhouetteMask) ==
    LET blend(backdrop, source) == Apply("alphaBlend", <<backdrop, source>>)
    IN [i \in Indices(background.width, background.height) |->
           blend(IF silhouetteMask[i] # 0
                 THEN blend(background.data[i], shadow.data[i])
                 ELSE background.data[i],
                 foreground.data[i])]

compositeAttachedShadow(background, shadow, foreground, silhouetteMask) ==
    LET blend(backdrop, source) == Apply("alphaBlend", <<backdrop, source>>)
    IN [i \in Indices(background.width, background.height) |->
           blend(IF silhouetteMask[i] = 0
                 THEN blend(background.data[i], shadow.data[i])
                 ELSE background.data[i],
                 foreground.data[i])]

(***************************************************************************)
(* BlurEngine                                                              *)
(***************************************************************************)
\* `if (radius < 0.5)': the pixel is returned as it is
BlurCutoff == FHalf

\* a neighbourhood without the circular test: the whole square
sampledOffsetsSquare(imageData, cx, cy, radius) ==
    LET intRadius == FMathCeil(radius)
    IN IF FIsNaN(radius) THEN {}
       ELSE {o \in ((0 - intRadius) .. intRadius)
                      \X ((0 - intRadius) .. intRadius) :
               InBounds(cx + o[1], cy + o[2], imageData.width,
                        imageData.height)}

\* the offsets (dx, dy) of the square neighbourhood that are sampled, those
\* that `if (distSq > radius * radius) continue' lets through; the loops
\* from -intRadius to intRadius run over nothing when the radius is NaN
sampledOffsets(imageData, cx, cy, radius) ==
    LET intRadius == FMathCeil(radius)
        radiusSq == FMul(radius, radius)
    IN IF FIsNaN(radius) THEN {}
       ELSE {o \in ((0 - intRadius) .. intRadius)
                      \X ((0 - intRadius) .. intRadius) :
               /\ InBounds(cx + o[1], cy + o[2], imageData.width,
                           imageData.height)
               /\ ~FGt(FFromInt(o[1] * o[1] + o[2] * o[2]), radiusSq)}

RECURSIVE sumChannel(_, _, _, _, _)
sumChannel(imageData, cx, cy, offsets, ch) ==
    IF offsets = {} THEN 0
    ELSE LET o == CHOOSE p \in offsets : TRUE
             px == imageData.data[(cy + o[2]) * imageData.width + (cx + o[1])]
         IN (CASE ch = "r" -> px.r [] ch = "g" -> px.g
               [] ch = "b" -> px.b [] ch = "a" -> px.a)
            + sumChannel(imageData, cx, cy, offsets \ {o}, ch)

\* the sums of the channels are divided by count when count > 0, rounded
\* with Math.round and clamped
gaussianBlurAtPixel(imageData, cx, cy, radius) ==
    IF FLt(radius, BlurCutoff)
    THEN imageData.data[cy * imageData.width + cx]
    ELSE LET offsets == sampledOffsets(imageData, cx, cy, radius)
             count == Cardinality(offsets)
             avg(ch) ==
                 IF count > 0
                 THEN clampInt(FMathRound(FDiv(
                          FFromInt(sumChannel(imageData, cx, cy, offsets, ch)),
                          FFromInt(count))), 0, 255)
                 ELSE 0
         IN Pixel(avg("r"), avg("g"), avg("b"), avg("a"))

\* the radius interpolated the wrong way: maxBlur at the contact line
applyDistanceWeightedBlurSwapped(shadowData, distanceMap, minBlur, maxBlur, maxDistance) ==
    [idx \in Indices(shadowData.width, shadowData.height) |->
        LET normalizedDist == normalize(distanceMap.data[idx], FZero, maxDistance)
            blurRadius == lerp(maxBlur, minBlur, normalizedDist)
        IN gaussianBlurAtPixel(shadowData, XOf(idx, shadowData.width),
                               YOf(idx, shadowData.width), blurRadius)]

applyDistanceWeightedBlur(shadowData, distanceMap, minBlur, maxBlur, maxDistance) ==
    [idx \in Indices(shadowData.width, shadowData.height) |->
        LET normalizedDist == normalize(distanceMap.data[idx], FZero, maxDistance)
            blurRadius == lerp(minBlur, maxBlur, normalizedDist)
        IN gaussianBlurAtPixel(shadowData, XOf(idx, shadowData.width),
                               YOf(idx, shadowData.width), blurRadius)]

(***************************************************************************)
(* The operations on naturals and Numbers, and the functions of the        *)
(* program computed with them, by name.  The arguments of a call are       *)
(* evaluated before the call: taking their number first does that.         *)
(***************************************************************************)
Apply(op, args) ==
    CASE Len(args) = 0 -> args
      [] op = "FMul" -> FMulImpl(args[1], args[2])
      [] op = "FAdd" -> FAddImpl(args[1], args[2])
      [] op = "FDiv" -> FDivImpl(args[1], args[2])
      [] op = "FCmp" -> FCmpImpl(args[1], args[2])
      [] op = "FFromInt" -> FFromIntImpl(args[1])
      [] op = "FMathRound" -> FMathRoundImpl(args[1])
      [] op = "FFromFx" -> FFromFxImpl(args[1])
      [] op = "FToFx" -> FToFxImpl(args[1])
      [] op = "FToUint8Clamped" -> FToUint8ClampedImpl(args[1])
      [] op = "FExp" -> FExpImpl(args[1])
      [] op = "fRound" -> fRoundImpl(args[1], args[2], args[3])
      [] op = "fAddOrdered" -> fAddOrderedImpl(args[1], args[2])
      [] op = "fCmpAbs" -> fCmpAbsImpl(args[1], args[2])
      [] op = "natAdd" -> natAddImpl(args[1], args[2])
      [] op = "natSub" -> natSubImpl(args[1], args[2])
      [] op = "natCmp" -> natCmpImpl(args[1], args[2])
      [] op = "natMul" -> natMulImpl(args[1], args[2])
      [] op = "natShl" -> natShlImpl(args[1], args[2])
      [] op = "natShr" -> natShrImpl(args[1], args[2])
      [] op = "natMulSmall" -> natMulSmallImpl(args[1], args[2])
      [] op = "natDivStep" -> natDivStepImpl(args[1], args[2], args[3])
      [] op = "natSqrtStep" ->
            natSqrtStepImpl(args[1], args[2], args[3], args[4])
      [] op = "FSqrt" -> FSqrtImpl(args[1])
      [] op = "FToFloat32" -> FToFloat32Impl(args[1])
      [] op = "FMathCeil" -> FMathCeilImpl(args[1])
      [] op = "calculate" -> calculate(args[1], args[2])
      [] op = "getShadowLengthMultiplier" -> getShadowLengthMultiplier(args[1])
      [] op = "project" ->
            project(args[1], args[2], args[3], args[4], args[5], args[6])
      [] op = "createShadowLayer" ->
            createShadowLayer(args[1], args[2], args[3], args[4], args[5])
      [] op = "alphaBlend" -> alphaBlend(args[1], args[2])
      [] op = "compute" -> compute(args[1], args[2], args[3], args[4])
      [] op = "getDefaultConfig" -> getDefaultConfig(args[1], args[2])
      [] op = "applyDistanceWeightedBlur" ->
            applyDistanceWeightedBlur(args[1], args[2], args[3], args[4],
                                      args[5])

(***************************************************************************)
(* State.                                                                  *)
(*   images, config     the arguments of the call in progress              *)
(*   pc                 the position of the caller / of generate           *)
(*   calls              the component methods invoked so far, in order     *)
(*   nextBuf            the identity the next allocation receives          *)
(*   silhouette .. compositeOut   the locals of ShadowGenerator.generate   *)
(*   result             what generate returned                             *)
(*   validation         the outcome of ShadowGenerator.validateImages      *)
(*   alphaThreshold, mask, prevThreshold, prevMask                         *)
(*                      a direct caller of SilhouetteExtractor.extract     *)
(***************************************************************************)
VARIABLES images, config, pc, calls, nextBuf,
          silhouette, lightVector, shadowLength, contactLine, distanceMap,
          shadowMask, shadowLayer, maskDebug, compositeOut, result,
          validation, alphaThreshold, mask, prevThreshold, prevMask

vars == <<images, config, pc, calls, nextBuf,
          silhouette, lightVector, shadowLength, contactLine, distanceMap,
          shadowMask, shadowLayer, maskDebug, compositeOut, result,
          validation, alphaThreshold, mask, prevThreshold, prevMask>>

locals == <<silhouette, lightVector, shadowLength, contactLine, distanceMap,
            shadowMask, shadowLayer, maskDebug, compositeOut, result>>

extractorVars == <<alphaThreshold, mask, prevThreshold, prevMask>>

(***************************************************************************)
(* Inputs the model draws from.                                            *)
(***************************************************************************)
MaxOpaque == 2
FgAlphas == {0, 255}
FgColour == [r |-> 200, g |-> 100, b |-> 50]
BgPixels == {Pixel(100, 150, 200, 255)}
DepthReds == {255}

Image(buf, w, h, data) == [buf |-> buf, width |-> w, height |-> h, data |-> data]

ForegroundsOf(w, h, alphas) ==
    {Image(FgBuf, w, h,
           [i \in Indices(w, h) |->
               Pixel(FgColour.r, FgColour.g, FgColour.b, al[i])]) :
        al \in [Indices(w, h) -> alphas]}

\* the cells the sampled foregrounds may hold an opaque pixel at: the four
\* corners, the second cell of the first row and the cell before the last
SourceCells(w, h) ==
    {0, 1, w - 1, (h - 1) * w, h * w - 2, h * w - 1} \cap Indices(w, h)

ForegroundWithOpaque(w, h, cells) ==
    Image(FgBuf, w, h,
          [i \in Indices(w, h) |->
              Pixel(FgColour.r, FgColour.g, FgColour.b,
                    IF i \in cells THEN 255 ELSE 0)])

\* the foregrounds with at most n opaque pixels, all at source cells
SparseForegrounds(w, h, n) ==
    {ForegroundWithOpaque(w, h, cells) :
        cells \in {c \in SUBSET SourceCells(w, h) : Cardinality(c) <= n}}

FullForeground(w, h) == ForegroundWithOpaque(w, h, Indices(w, h))

BackgroundsOf(w, h) ==
    {Image(BgBuf, w, h, [i \in Indices(w, h) |-> p]) : p \in BgPixels}

DepthMapsOf(w, h) ==
    {Image(DmBuf, w, h, [i \in Indices(w, h) |-> Pixel(d, d, d, 255)]) :
        d \in DepthReds}

\* types.ts ShadowConfig: the angles are whole degrees; the other fields
\* are Numbers, given here in units of 1/Scale as their decimal literals
ShadowConfig(angle, elevation, maxDistance, opacity, falloff, minBlur, maxBlur) ==
    [lightAngle |-> angle, lightElevation |-> elevation,
     maxShadowDistance |-> FFromFx(maxDistance),
     contactOpacity |-> FFromFx(opacity), falloffRate |-> FFromFx(falloff),
     minBlurRadius |-> FFromFx(minBlur), maxBlurRadius |-> FFromFx(maxBlur)]

ConfigSamples ==
    {ShadowConfig(180, 30, 5000, 800, 4000, 1000, 10000),
     ShadowConfig(135, 45, 2000, 500, 3000, 0, 0)}

NoMask == [buf |-> 0, data |-> <<>>]
NoDistanceMap == [buf |-> 0, data |-> <<>>, width |-> 0, height |-> 0]
NoLightVector == [dx |-> FZero, dy |-> FZero, dz |-> FZero]
NoContactLine == [points |-> <<>>]
NoResult == [shadowOnly |-> Undefined, maskDebug |-> Undefined,
             composite |-> Undefined]
NoValidation == [outcome |-> "none", error |-> "", warnings |-> <<>>]

InitLocals ==
    /\ silhouette = NoMask
    /\ lightVector = NoLightVector
    /\ shadowLength = FZero
    /\ contactLine = NoContactLine
    /\ distanceMap = NoDistanceMap
    /\ shadowMask = NoMask
    /\ shadowLayer = Undefined
    /\ maskDebug = Undefined
    /\ compositeOut = Undefined
    /\ result = NoResult

InitExtractor ==
    /\ alphaThreshold = DefaultAlphaThreshold
    /\ mask = NoMask
    /\ prevThreshold = DefaultAlphaThreshold
    /\ prevMask = NoMask

(***************************************************************************)
(* A caller of ShadowGenerator.generate: the images that are present have  *)
(* the same dimensions GenWidth x GenHeight (the caller pre-resizes); the  *)
(* foreground is fully opaque or has at most MaxOpaque opaque pixels.      *)
(***************************************************************************)
Init ==
    /\ config \in ConfigSamples
    /\ images \in
         [foreground :
             SparseForegrounds(GenWidth, GenHeight, MaxOpaque)
                \cup {FullForeground(GenWidth, GenHeight), Undefined},
          background : BackgroundsOf(GenWidth, GenHeight) \cup {Undefined},
          depthMap : DepthMapsOf(GenWidth, GenHeight) \cup {Undefined}]
    /\ pc = "idle"
    /\ calls = <<>>
    /\ nextBuf = FirstFreshBuf
    /\ validation = NoValidation
    /\ InitLocals
    /\ InitExtractor

\* a write into the buffer b.buf is seen by every image that is that buffer
Store(imgs, b) ==
    [k \in DOMAIN imgs |->
        IF IsPresent(imgs[k]) /\ imgs[k].buf = b.buf
        THEN [imgs[k] EXCEPT !.data = b.data]
        ELSE imgs[k]]

Call(component, method) == [component |-> component, method |-> method]

(***************************************************************************)
(* ShadowGenerator.generate, one action per step of the pipeline.          *)
(***************************************************************************)
genWidth == images.foreground.width
genHeight == images.foreground.height

\* the buffer composite writes: `new ImageData(width, height)' of the
\* background's dimensions
compositeResultInPlace(background, fresh) ==
    [buf |-> background.buf, width |-> background.width,
     height |-> background.height]

compositeResult(background, fresh) ==
    [buf |-> fresh, width |-> background.width, height |-> background.height]

\* the order of the statements of generate, with steps 6 and 7 exchanged
pipelineNextBlurFirst(step) ==
    CASE step = "extract" -> "light"
      [] step = "light" -> "detect"
      [] step = "detect" -> "distance"
      [] step = "distance" -> "project"
      [] step = "project" -> "occlusion"
      [] step = "occlusion" -> "blur"
      [] step = "blur" -> "shadowLayer"
      [] step = "shadowLayer" -> "maskDebug"
      [] step = "maskDebug" -> "composite"
      [] step = "composite" -> "done"

\* the order of the statements of generate: the step that follows a step
pipelineNext(step) ==
    CASE step = "extract" -> "light"
      [] step = "light" -> "detect"
      [] step = "detect" -> "distance"
      [] step = "distance" -> "project"
      [] step = "project" -> "occlusion"
      [] step = "occlusion" -> "shadowLayer"
      [] step = "shadowLayer" -> "blur"
      [] step = "blur" -> "maskDebug"
      [] step = "maskDebug" -> "composite"
      [] step = "composite" -> "done"

\* lines 58-59: reading images.foreground.width of an absent foreground
\* raises a TypeError
Generate_Enter ==
    /\ pc = "idle"
    /\ pc' = IF IsPresent(images.foreground) THEN "extract" ELSE "threw"
    /\ UNCHANGED <<images, config, calls, nextBuf, locals, validation,
                   extractorVars>>

Step1_Extract ==
    /\ pc = "extract"
    /\ silhouette' = [buf |-> nextBuf,
                      data |-> extract(images.foreground, ArgOmitted)]
    /\ images' = Store(images, silhouette')
    /\ nextBuf' = nextBuf + 1
    /\ calls' = Append(calls, Call("SilhouetteExtractor", "extract"))
    /\ pc' = pipelineNext("extract")
    /\ UNCHANGED <<config, lightVector, shadowLength, contactLine,
                   distanceMap, shadowMask, shadowLayer, maskDebug,
                   compositeOut, result, validation, extractorVars>>

Step2_LightVector ==
    /\ pc = "light"
    /\ lightVector' = Apply("calculate",
                            <<config.lightAngle, config.lightElevation>>)
    /\ shadowLength' = FMul(Apply("getShadowLengthMultiplier",
                                  <<config.lightElevation>>),
                            config.maxShadowDistance)
    /\ calls' = calls \o <<Call("LightVectorCalculator", "calculate"),
                           Call("LightVectorCalculator",
                                "getShadowLengthMultiplier")>>
    /\ pc' = pipelineNext("light")
    /\ UNCHANGED <<images, config, nextBuf, silhouette, contactLine,
                   distanceMap, shadowMask, shadowLayer, maskDebug,
                   compositeOut, result, validation, extractorVars>>

Step3_Detect ==
    /\ pc = "detect"
    /\ contactLine' = detect(silhouette.data, genWidth, genHeight)
    /\ calls' = Append(calls, Call("ContactLineDetector", "detect"))
    /\ pc' = pipelineNext("detect")
    /\ UNCHANGED <<images, config, nextBuf, silhouette, lightVector,
                   shadowLength, distanceMap, shadowMask, shadowLayer,
                   maskDebug, compositeOut, result, validation, extractorVars>>

Step4_Distance ==
    /\ pc = "distance"
    /\ distanceMap' = [buf |-> nextBuf] @@
                      Apply("compute", <<silhouette.data, contactLine,
                                         genWidth, genHeight>>)
    /\ images' = Store(images, distanceMap')
    /\ nextBuf' = nextBuf + 1
    /\ calls' = Append(calls, Call("DistanceTransform", "compute"))
    /\ pc' = pipelineNext("distance")
    /\ UNCHANGED <<config, silhouette, lightVector, shadowLength, contactLine,
                   shadowMask, shadowLayer, maskDebug, compositeOut, result,
                   validation, extractorVars>>

\* project does not return when one of its drawLine loops never leaves
Step5_Project ==
    /\ pc = "project"
    /\ LET projected == Apply("project",
                               <<silhouette.data, genWidth, genHeight,
                                 lightVector, shadowLength, images.depthMap>>)
       IN /\ shadowMask' = [buf |-> nextBuf, data |-> projected.data]
          /\ pc' = IF projected.hung THEN "hung"
                   ELSE pipelineNext("project")
    /\ images' = Store(images, shadowMask')
    /\ nextBuf' = nextBuf + 1
    /\ calls' = Append(calls, Call("ShadowProjector", "project"))
    /\ UNCHANGED <<config, silhouette, lightVector, shadowLength, contactLine,
                   distanceMap, shadowLayer, maskDebug, compositeOut, result,
                   validation, extractorVars>>

Step5_RemoveOcclusions ==
    /\ pc = "occlusion"
    /\ shadowMask' = [buf |-> nextBuf,
                      data |-> removeOcclusions(shadowMask.data,
                                   silhouette.data, genWidth, genHeight)]
    /\ images' = Store(images, shadowMask')
    /\ nextBuf' = nextBuf + 1
    /\ calls' = Append(calls, Call("ShadowProjector", "removeOcclusions"))
    /\ pc' = pipelineNext("occlusion")
    /\ UNCHANGED <<config, silhouette, lightVector, shadowLength, contactLine,
                   distanceMap, shadowLayer, maskDebug, compositeOut, result,
                   validation, extractorVars>>

Step6_CreateShadowLayer ==
    /\ pc = "shadowLayer"
    /\ shadowLayer' = Image(nextBuf, genWidth, genHeight,
                            Apply("createShadowLayer",
                                  <<shadowMask.data, distanceMap, config,
                                    genWidth, genHeight>>))
    /\ images' = Store(images, shadowLayer')
    /\ nextBuf' = nextBuf + 1
    /\ calls' = Append(calls, Call("ShadowCompositor", "createShadowLayer"))
    /\ pc' = pipelineNext("shadowLayer")
    /\ UNCHANGED <<config, silhouette, lightVector, shadowLength, contactLine,
                   distanceMap, shadowMask, maskDebug, compositeOut, result,
                   validation, extractorVars>>

Step7_Blur ==
    /\ pc = "blur"
    /\ shadowLayer' = Image(nextBuf, shadowLayer.width, shadowLayer.height,
                            Apply("applyDistanceWeightedBlur",
                                  <<shadowLayer, distanceMap,
                                    config.minBlurRadius, config.maxBlurRadius,
                                    config.maxShadowDistance>>))
    /\ images' = Store(images, shadowLayer')
    /\ nextBuf' = nextBuf + 1
    /\ calls' = Append(calls, Call("BlurEngine", "applyDistanceWeightedBlur"))
    /\ pc' = pipelineNext("blur")
    /\ UNCHANGED <<config, silhouette, lightVector, shadowLength, contactLine,
                   distanceMap, shadowMask, maskDebug, compositeOut, result,
                   validation, extractorVars>>

Step8_MaskDebug ==
    /\ pc = "maskDebug"
    /\ maskDebug' = Image(nextBuf, genWidth, genHeight,
                          maskToImageData(silhouette.data,
                                          genWidth, genHeight))
    /\ images' = Store(images, maskDebug')
    /\ nextBuf' = nextBuf + 1
    /\ calls' = Append(calls, Call("SilhouetteExtractor", "maskToImageData"))
    /\ pc' = pipelineNext("maskDebug")
    /\ UNCHANGED <<config, silhouette, lightVector, shadowLength, contactLine,
                   distanceMap, shadowMask, shadowLayer, compositeOut, result,
                   validation, extractorVars>>

\* composite reads background.width first: an absent background raises a
\* TypeError there; otherwise generate returns the three buffers
Step9_Composite ==
    /\ pc = "composite"
    /\ calls' = Append(calls, Call("ShadowCompositor", "composite"))
    /\ IF IsPresent(images.background)
       THEN /\ compositeOut' =
                 compositeResult(images.background, nextBuf) @@
                 [data |-> composite(images.background, shadowLayer,
                                     images.foreground)]
            /\ images' = Store(images, compositeOut')
            /\ nextBuf' = nextBuf + 1
            /\ result' = [shadowOnly |-> shadowLayer,
                          maskDebug |-> maskDebug,
                          composite |-> compositeOut']
            /\ pc' = pipelineNext("composite")
       ELSE /\ pc' = "threw"
            /\ UNCHANGED <<images, nextBuf, compositeOut, result>>
    /\ UNCHANGED <<config, silhouette, lightVector, shadowLength, contactLine,
                   distanceMap, shadowMask, shadowLayer, maskDebug,
                   validation, extractorVars>>

Next ==
    \/ Generate_Enter
    \/ Step1_Extract
    \/ Step2_LightVector
    \/ Step3_Detect
    \/ Step4_Distance
    \/ Step5_Project
    \/ Step5_RemoveOcclusions
    \/ Step6_CreateShadowLayer
    \/ Step7_Blur
    \/ Step8_MaskDebug
    \/ Step9_Composite

Spec == Init /\ [][Next]_vars

(***************************************************************************)
(* ShadowGenerator.validateImages.  A throw carries the message of the     *)
(* Error; console.warn calls are collected as warnings.                    *)
(***************************************************************************)
SameDimensions(a, b) == a.width = b.width /\ a.height = b.height

\* a validation that treats a dimension mismatch as fatal
validateImagesStrict(imgs) ==
    IF ~IsPresent(imgs.foreground)
    THEN [outcome |-> "threw", error |-> "Foreground image is required",
          warnings |-> <<>>]
    ELSE IF ~IsPresent(imgs.background)
    THEN [outcome |-> "threw", error |-> "Background image is required",
          warnings |-> <<>>]
    ELSE IF ~SameDimensions(imgs.foreground, imgs.background)
    THEN [outcome |-> "threw", error |-> "Image dimension mismatch",
          warnings |-> <<>>]
    ELSE [outcome |-> "returned", error |-> "", warnings |-> <<>>]

validateImages(imgs) ==
    IF ~IsPresent(imgs.foreground)
    THEN [outcome |-> "threw", error |-> "Foreground image is required",
          warnings |-> <<>>]
    ELSE IF ~IsPresent(imgs.background)
    THEN [outcome |-> "threw", error |-> "Background image is required",
          warnings |-> <<>>]
    ELSE [outcome |-> "returned", error |-> "",
          warnings |->
             (IF ~SameDimensions(imgs.foreground, imgs.background)
              THEN <<"Image dimension mismatch">> ELSE <<>>)
             \o
             (IF IsPresent(imgs.depthMap)
                 /\ ~SameDimensions(imgs.depthMap, imgs.foreground)
              THEN <<"Depth map dimension mismatch">> ELSE <<>>)]

\* a caller of validateImages: each image is absent or has any dimensions
\* up to MaxDim x MaxDim
Dimensions == (1 .. MaxDim) \X (1 .. MaxDim)

InitValidate ==
    /\ config \in {c \in ConfigSamples : c.lightAngle = 180}
    /\ images \in
         [foreground :
             UNION {ForegroundsOf(d[1], d[2], {255}) : d \in Dimensions}
             \cup {Undefined},
          background :
             UNION {BackgroundsOf(d[1], d[2]) : d \in Dimensions}
             \cup {Undefined},
          depthMap :
             UNION {DepthMapsOf(d[1], d[2]) : d \in Dimensions}
             \cup {Undefined}]
    /\ pc = "idle"
    /\ calls = <<>>
    /\ nextBuf = FirstFreshBuf
    /\ validation = NoValidation
    /\ InitLocals
    /\ InitExtractor

ValidateImages ==
    /\ pc = "idle"
    /\ validation' = validateImages(images)
    /\ pc' = "validated"
    /\ UNCHANGED <<images, config, calls, nextBuf, locals, extractorVars>>

NextValidate == ValidateImages

SpecValidate == InitValidate /\ [][NextValidate]_vars

(***************************************************************************)
(* A direct caller of SilhouetteExtractor.extract: a one-row foreground of *)
(* ExtractPixels pixels, a threshold in 0..255 or left out, and a second   *)
(* call on the same image with a raised threshold.                         *)
(***************************************************************************)
ExtractPixels == 3
AlphaSamples == {0, 10, 11, 255}
ThresholdSamples == {0, 9, 10, 11, 128, 254, 255}

effectiveThreshold(t) == IF t = ArgOmitted THEN DefaultAlphaThreshold ELSE t

RaisedThresholds(t) ==
    {t2 \in ThresholdSamples \cup {effectiveThreshold(t) + 1} :
        t2 > effectiveThreshold(t) /\ t2 <= 255}

InitExtract ==
    /\ config \in {c \in ConfigSamples : c.lightAngle = 180}
    /\ images \in
         [foreground : ForegroundsOf(ExtractPixels, 1, AlphaSamples),
          background : {Undefined},
          depthMap : {Undefined}]
    /\ pc = "idle"
    /\ calls = <<>>
    /\ nextBuf = FirstFreshBuf
    /\ validation = NoValidation
    /\ InitLocals
    /\ alphaThreshold \in (0 .. 255) \cup {ArgOmitted}
    /\ mask = NoMask
    /\ prevThreshold = alphaThreshold
    /\ prevMask = NoMask

Extract_Call ==
    /\ pc = "idle"
    /\ mask' = [buf |-> nextBuf,
                data |-> extract(images.foreground, alphaThreshold)]
    /\ nextBuf' = nextBuf + 1
    /\ pc' = "extracted"
    /\ UNCHANGED <<images, config, calls, locals, validation, alphaThreshold,
                   prevThreshold, prevMask>>

Extract_Raised ==
    /\ pc = "extracted"
    /\ \E t2 \in RaisedThresholds(alphaThreshold) :
          /\ alphaThreshold' = t2
          /\ mask' = [buf |-> nextBuf,
                      data |-> extract(images.foreground, t2)]
    /\ prevThreshold' = alphaThreshold
    /\ prevMask' = mask
    /\ nextBuf' = nextBuf + 1
    /\ pc' = "reextracted"
    /\ UNCHANGED <<images, config, calls, locals, validation>>

NextExtract == Extract_Call \/ Extract_Raised

SpecExtract == InitExtract /\ [][NextExtract]_vars

(***************************************************************************)
(* A direct caller of the mask algorithms on a Width x Height foreground:  *)
(* mask = extract(foreground), contactLine = detect(mask, w, h),           *)
(* distanceMap = compute(mask, contactLine, w, h).                         *)
(***************************************************************************)
InitContact ==
    /\ config \in {c \in ConfigSamples : c.lightAngle = 180}
    /\ images \in
         [foreground : ForegroundsOf(Width, Height, FgAlphas),
          background : {Undefined},
          depthMap : {Undefined}]
    /\ pc = "idle"
    /\ calls = <<>>
    /\ nextBuf = FirstFreshBuf
    /\ validation = NoValidation
    /\ InitLocals
    /\ InitExtractor

Contact_Extract ==
    /\ pc = "idle"
    /\ silhouette' = [buf |-> nextBuf,
                      data |-> extract(images.foreground, ArgOmitted)]
    /\ nextBuf' = nextBuf + 1
    /\ calls' = Append(calls, Call("SilhouetteExtractor", "extract"))
    /\ pc' = "masked"
    /\ UNCHANGED <<images, config, lightVector, shadowLength, contactLine,
                   distanceMap, shadowMask, shadowLayer, maskDebug,
                   compositeOut, result, validation, extractorVars>>

Contact_Detect ==
    /\ pc = "masked"
    /\ contactLine' = detect(silhouette.data, genWidth, genHeight)
    /\ calls' = Append(calls, Call("ContactLineDetector", "detect"))
    /\ pc' = "detected"
    /\ UNCHANGED <<images, config, nextBuf, silhouette, lightVector,
                   shadowLength, distanceMap, shadowMask, shadowLayer,
                   maskDebug, compositeOut, result, validation, extractorVars>>

Contact_Compute ==
    /\ pc = "detected"
    /\ distanceMap' = [buf |-> nextBuf] @@
                      Apply("compute", <<silhouette.data, contactLine,
                                         genWidth, genHeight>>)
    /\ nextBuf' = nextBuf + 1
    /\ calls' = Append(calls, Call("DistanceTransform", "compute"))
    /\ pc' = "computed"
    /\ UNCHANGED <<images, config, silhouette, lightVector, shadowLength,
                   contactLine, shadowMask, shadowLayer, maskDebug,
                   compositeOut, result, validation, extractorVars>>

\* compute called with the empty contact line { points: [] } on the mask
Contact_ComputeEmptyLine ==
    /\ pc = "masked"
    /\ distanceMap' = [buf |-> nextBuf] @@
                      Apply("compute", <<silhouette.data, NoContactLine,
                                         genWidth, genHeight>>)
    /\ nextBuf' = nextBuf + 1
    /\ calls' = Append(calls, Call("DistanceTransform", "compute"))
    /\ pc' = "computedEmptyLine"
    /\ UNCHANGED <<images, config, silhouette, lightVector, shadowLength,
                   contactLine, shadowMask, shadowLayer, maskDebug,
                   compositeOut, result, validation, extractorVars>>

NextContact ==
    \/ Contact_Extract
    \/ Contact_Detect
    \/ Contact_Compute
    \/ Contact_ComputeEmptyLine

SpecContact == InitContact /\ [][NextContact]_vars

(***************************************************************************)
(* A direct caller of ShadowProjector on a ProjWidth x ProjHeight canvas:  *)
(* the mask of a foreground with at most MaxOpaque opaque pixels, the      *)
(* light vector of the configuration, then                                 *)
(* shadowMask = project(mask, w, h, lightVector, maxShadowDistance, depth) *)
(* and removeOcclusions(shadowMask, mask, w, h).                           *)
(***************************************************************************)
ProjWidth == 4
ProjHeight == 2

ProjectAngles == {0, 30, 90, 135, 180}
ProjectElevations == {0, 30}
ProjectDistances == {1000, 2000, 3000, 6000}

ProjectConfigs ==
    {ShadowConfig(a, e, m, 800, 4000, 0, 0) :
        a \in ProjectAngles, e \in ProjectElevations, m \in ProjectDistances}

\* depth maps of one grey level: nearest (red 0) and farthest (red 255)
ProjectDepthReds == {0, 255}

ProjectDepthMaps(w, h) ==
    {Image(DmBuf, w, h, [i \in Indices(w, h) |-> Pixel(d, d, d, 255)]) :
        d \in ProjectDepthReds}

InitProject ==
    /\ config \in ProjectConfigs
    /\ images \in
         [foreground : SparseForegrounds(ProjWidth, ProjHeight, MaxOpaque),
          background : {Undefined},
          depthMap : ProjectDepthMaps(ProjWidth, ProjHeight) \cup {Undefined}]
    /\ pc = "idle"
    /\ calls = <<>>
    /\ nextBuf = FirstFreshBuf
    /\ validation = NoValidation
    /\ InitLocals
    /\ InitExtractor

Project_Extract ==
    /\ pc = "idle"
    /\ silhouette' = [buf |-> nextBuf,
                      data |-> extract(images.foreground, ArgOmitted)]
    /\ nextBuf' = nextBuf + 1
    /\ calls' = Append(calls, Call("SilhouetteExtractor", "extract"))
    /\ pc' = "masked"
    /\ UNCHANGED <<images, config, lightVector, shadowLength, contactLine,
                   distanceMap, shadowMask, shadowLayer, maskDebug,
                   compositeOut, result, validation, extractorVars>>

Project_Light ==
    /\ pc = "masked"
    /\ lightVector' = Apply("calculate",
                            <<config.lightAngle, config.lightElevation>>)
    /\ shadowLength' = config.maxShadowDistance
    /\ calls' = Append(calls, Call("LightVectorCalculator", "calculate"))
    /\ pc' = "lit"
    /\ UNCHANGED <<images, config, nextBuf, silhouette, contactLine,
                   distanceMap, shadowMask, shadowLayer, maskDebug,
                   compositeOut, result, validation, extractorVars>>

Project_Project ==
    /\ pc = "lit"
    /\ LET projected == Apply("project",
                               <<silhouette.data, genWidth, genHeight,
                                 lightVector, shadowLength, images.depthMap>>)
       IN /\ shadowMask' = [buf |-> nextBuf, data |-> projected.data]
          /\ pc' = IF projected.hung THEN "hung" ELSE "projected"
    /\ nextBuf' = nextBuf + 1
    /\ calls' = Append(calls, Call("ShadowProjector", "project"))
    /\ UNCHANGED <<images, config, silhouette, lightVector, shadowLength,
                   contactLine, distanceMap, shadowLayer, maskDebug,
                   compositeOut, result, validation, extractorVars>>

Project_RemoveOcclusions ==
    /\ pc = "projected"
    /\ shadowMask' = [buf |-> nextBuf,
                      data |-> removeOcclusions(shadowMask.data,
                                   silhouette.data, genWidth, genHeight)]
    /\ nextBuf' = nextBuf + 1
    /\ calls' = Append(calls, Call("ShadowProjector", "removeOcclusions"))
    /\ pc' = "unoccluded"
    /\ UNCHANGED <<images, config, silhouette, lightVector, shadowLength,
                   contactLine, distanceMap, shadowLayer, maskDebug,
                   compositeOut, result, validation, extractorVars>>

NextProject ==
    \/ Project_Extract
    \/ Project_Light
    \/ Project_Project
    \/ Project_RemoveOcclusions

SpecProject == InitProject /\ [][NextProject]_vars

(***************************************************************************)
(* A direct caller of ShadowProjector.removeOcclusions with any shadow     *)
(* mask (held in mask) and any silhouette mask of OcclusionPixels x 1      *)
(* cells; the result of the first call is passed to a second call.         *)
(***************************************************************************)
OcclusionPixels == 4

MasksOf(w, h) == [Indices(w, h) -> {0, 1}]

InitOcclusion ==
    /\ images = [foreground |-> Undefined, background |-> Undefined,
                 depthMap |-> Undefined]
    /\ config \in {c \in ConfigSamples : c.lightAngle = 180}
    /\ pc = "idle"
    /\ calls = <<>>
    /\ nextBuf = FirstFreshBuf + 2
    /\ validation = NoValidation
    /\ lightVector = NoLightVector
    /\ shadowLength = FZero
    /\ contactLine = NoContactLine
    /\ distanceMap = NoDistanceMap
    /\ shadowLayer = Undefined
    /\ maskDebug = Undefined
    /\ compositeOut = Undefined
    /\ result = NoResult
    /\ silhouette \in {[buf |-> FirstFreshBuf, data |-> m] :
                          m \in MasksOf(OcclusionPixels, 1)}
    /\ mask \in {[buf |-> FirstFreshBuf + 1, data |-> m] :
                    m \in MasksOf(OcclusionPixels, 1)}
    /\ shadowMask = NoMask
    /\ alphaThreshold = DefaultAlphaThreshold
    /\ prevThreshold = DefaultAlphaThreshold
    /\ prevMask = NoMask

Occlusion_Remove ==
    /\ pc = "idle"
    /\ shadowMask' = [buf |-> nextBuf,
                      data |-> removeOcclusions(mask.data, silhouette.data,
                                                OcclusionPixels, 1)]
    /\ nextBuf' = nextBuf + 1
    /\ calls' = Append(calls, Call("ShadowProjector", "removeOcclusions"))
    /\ pc' = "once"
    /\ UNCHANGED <<images, config, silhouette, lightVector, shadowLength,
                   contactLine, distanceMap, shadowLayer, maskDebug,
                   compositeOut, result, validation, extractorVars>>

Occlusion_RemoveAgain ==
    /\ pc = "once"
    /\ prevMask' = shadowMask
    /\ shadowMask' = [buf |-> nextBuf,
                      data |-> removeOcclusions(shadowMask.data,
                                   silhouette.data, OcclusionPixels, 1)]
    /\ nextBuf' = nextBuf + 1
    /\ calls' = Append(calls, Call("ShadowProjector", "removeOcclusions"))
    /\ pc' = "twice"
    /\ UNCHANGED <<images, config, silhouette, lightVector, shadowLength,
                   contactLine, distanceMap, shadowLayer, maskDebug,
                   compositeOut, result, validation, alphaThreshold, mask,
                   prevThreshold>>

NextOcclusion == Occlusion_Remove \/ Occlusion_RemoveAgain

SpecOcclusion == InitOcclusion /\ [][NextOcclusion]_vars

(***************************************************************************)
(* A direct caller of ShadowCompositor.createShadowLayer on a canvas of    *)
(* LayerPixels x 1 cells and any shadow mask: every contactOpacity of      *)
(* [0, 1] in steps of 1/Scale on the distance map that is 0 everywhere,    *)
(* and the opacities of OpacitySamples, with a maxShadowDistance of 5 or   *)
(* of 0, on every distance map over DistanceSamples.  The distances are    *)
(* given in units of 1/Scale and held as a Float32Array holds them.        *)
(***************************************************************************)
LayerPixels == 2
DistanceSamples == {0, 1955, 2000}
OpacitySamples == {0, 8, 178, 260, 500, 800, 1000}
LayerMaxDistances == {0, 5000}

LayerConfigs(opacities, maxDistances) ==
    {ShadowConfig(180, 30, m, c, 4000, 0, 0) :
        c \in opacities, m \in maxDistances}

LayerDistanceMaps(distances) ==
    {[buf |-> FirstFreshBuf, data |-> dm,
      width |-> LayerPixels, height |-> 1] :
        dm \in [Indices(LayerPixels, 1) ->
                   {FToFloat32(FFromFx(d)) : d \in distances}]}

InitLayer ==
    /\ images = [foreground |-> Undefined, background |-> Undefined,
                 depthMap |-> Undefined]
    /\ \/ /\ config \in LayerConfigs(0 .. Scale, {5000})
          /\ distanceMap \in LayerDistanceMaps({0})
       \/ /\ config \in LayerConfigs(OpacitySamples, LayerMaxDistances)
          /\ distanceMap \in LayerDistanceMaps(DistanceSamples)
    /\ pc = "idle"
    /\ calls = <<>>
    /\ nextBuf = FirstFreshBuf + 2
    /\ validation = NoValidation
    /\ silhouette = NoMask
    /\ lightVector = NoLightVector
    /\ shadowLength = FZero
    /\ contactLine = NoContactLine
    /\ shadowMask \in {[buf |-> FirstFreshBuf + 1, data |-> m] :
                          m \in MasksOf(LayerPixels, 1)}
    /\ shadowLayer = Undefined
    /\ maskDebug = Undefined
    /\ compositeOut = Undefined
    /\ result = NoResult
    /\ InitExtractor

Layer_Create ==
    /\ pc = "idle"
    /\ shadowLayer' = Image(nextBuf, LayerPixels, 1,
                            Apply("createShadowLayer",
                                  <<shadowMask.data, distanceMap, config,
                                    LayerPixels, 1>>))
    /\ nextBuf' = nextBuf + 1
    /\ calls' = Append(calls, Call("ShadowCompositor", "createShadowLayer"))
    /\ pc' = "layered"
    /\ UNCHANGED <<images, config, silhouette, lightVector, shadowLength,
                   contactLine, distanceMap, shadowMask, maskDebug,
                   compositeOut, result, validation, extractorVars>>

NextLayer == Layer_Create

SpecLayer == InitLayer /\ [][NextLayer]_vars

(***************************************************************************)
(* A direct caller of ShadowCompositor.composite and                       *)
(* compositeAttachedShadow on a canvas of CompPixels x 1 cells: a uniform  *)
(* background, any foreground over the sampled pixels, any silhouette mask *)
(* and a shadow layer that is either blank or any layer over the sampled   *)
(* shadow pixels.                                                          *)
(***************************************************************************)
CompPixels == 2

CompBgPixels == {Pixel(100, 150, 200, 255), Pixel(100, 150, 200, 128)}
CompFgPixels == {Pixel(200, 100, 50, 0), Pixel(200, 100, 50, 128),
                 Pixel(200, 100, 50, 255)}
CompShadowPixels == {Pixel(10, 20, 30, 0), Pixel(0, 0, 0, 204)}

UniformImages(buf, w, h, pixels) ==
    {Image(buf, w, h, [i \in Indices(w, h) |-> p]) : p \in pixels}

ImagesOver(buf, w, h, pixels) ==
    {Image(buf, w, h, data) : data \in [Indices(w, h) -> pixels]}

InitComposite ==
    /\ config \in {c \in ConfigSamples : c.lightAngle = 180}
    /\ images \in
         [foreground : ImagesOver(FgBuf, CompPixels, 1, CompFgPixels),
          background : UniformImages(BgBuf, CompPixels, 1, CompBgPixels),
          depthMap : {Undefined}]
    /\ pc = "idle"
    /\ calls = <<>>
    /\ nextBuf = FirstFreshBuf + 2
    /\ validation = NoValidation
    /\ silhouette \in {[buf |-> FirstFreshBuf, data |-> m] :
                          m \in MasksOf(CompPixels, 1)}
    /\ lightVector = NoLightVector
    /\ shadowLength = FZero
    /\ contactLine = NoContactLine
    /\ distanceMap = NoDistanceMap
    /\ shadowMask = NoMask
    /\ shadowLayer \in
         ImagesOver(FirstFreshBuf + 1, CompPixels, 1, CompShadowPixels)
         \cup UniformImages(FirstFreshBuf + 1, CompPixels, 1,
                            {Pixel(0, 0, 0, 0)})
    /\ maskDebug = Undefined
    /\ compositeOut = Undefined
    /\ result = NoResult
    /\ InitExtractor

Composite_Call ==
    /\ pc = "idle"
    /\ compositeOut' =
          compositeResult(images.background, nextBuf) @@
          [data |-> composite(images.background, shadowLayer,
                              images.foreground)]
    /\ images' = Store(images, compositeOut')
    /\ nextBuf' = nextBuf + 1
    /\ calls' = Append(calls, Call("ShadowCompositor", "composite"))
    /\ pc' = "composited"
    /\ UNCHANGED <<config, silhouette, lightVector, shadowLength, contactLine,
                   distanceMap, shadowMask, shadowLayer, maskDebug, result,
                   validation, extractorVars>>

Composite_Attached ==
    /\ pc = "idle"
    /\ compositeOut' =
          compositeResult(images.background, nextBuf) @@
          [data |-> compositeAttachedShadow(images.background, shadowLayer,
                                            images.foreground,
                                            silhouette.data)]
    /\ images' = Store(images, compositeOut')
    /\ nextBuf' = nextBuf + 1
    /\ calls' = Append(calls,
                       Call("ShadowCompositor", "compositeAttachedShadow"))
    /\ pc' = "attached"
    /\ UNCHANGED <<config, silhouette, lightVector, shadowLength, contactLine,
                   distanceMap, shadowMask, shadowLayer, maskDebug, result,
                   validation, extractorVars>>

NextComposite == Composite_Call \/ Composite_Attached

SpecComposite == InitComposite /\ [][NextComposite]_vars

(***************************************************************************)
(* The end-to-end scenarios: generate on a foreground whose only opaque    *)
(* pixel is (px, py), on a uniform background, with or without a uniform   *)
(* depth map, under a configuration with the scenario's light angle,       *)
(* elevation and maxShadowDistance.                                        *)
(***************************************************************************)
SinglePixelForeground(w, h, px, py) ==
    Image(FgBuf, w, h,
          [i \in Indices(w, h) |->
              Pixel(FgColour.r, FgColour.g, FgColour.b,
                    IF i = py * w + px THEN 255 ELSE 0)])

ScenarioBgPixels ==
    {Pixel(100, 150, 200, 255), Pixel(100, 150, 200, 128), Pixel(0, 0, 0, 0)}
ScenarioDepthPixels == {Pixel(0, 0, 0, 255), Pixel(255, 255, 255, 255)}

ScenarioConfigs(angle, elevation, maxDistance) ==
    {ShadowConfig(angle, elevation, maxDistance, c, 4000, b[1], b[2]) :
        c \in {300, 800}, b \in {<<0, 0>>, <<1000, 10000>>}}

InitScenario(w, h, px, py, angle, elevation, maxDistance) ==
    /\ images \in
         [foreground : {SinglePixelForeground(w, h, px, py)},
          background : UniformImages(BgBuf, w, h, ScenarioBgPixels),
          depthMap : UniformImages(DmBuf, w, h, ScenarioDepthPixels)
                        \cup {Undefined}]
    /\ config \in ScenarioConfigs(angle, elevation, maxDistance)
    /\ pc = "idle"
    /\ calls = <<>>
    /\ nextBuf = FirstFreshBuf
    /\ validation = NoValidation
    /\ InitLocals
    /\ InitExtractor

\* scenario 1: 4 x 4, pixel (1, 3), angle 0, elevation 90, distance 150
InitScenario1 == InitScenario(4, 4, 1, 3, 0, 90, 150 * Scale)

SpecScenario1 == InitScenario1 /\ [][Next]_vars

\* scenario 2: 10 x 10, pixel (2, 2), angle 180, elevation 30, distance 5
InitScenario2 == InitScenario(10, 10, 2, 2, 180, 30, 5 * Scale)

SpecScenario2 == InitScenario2 /\ [][Next]_vars

(***************************************************************************)
(* A direct caller of LightVectorCalculator.getShadowLengthMultiplier and  *)
(* of ShadowGenerator.getDefaultConfig: config holds the arguments, an     *)
(* elevation of 0..90 whole degrees and an angle, either of which a call   *)
(* of getDefaultConfig may leave out.  pc records whether getDefaultConfig *)
(* was called without arguments.                                           *)
(***************************************************************************)
AngleArgs == {ArgOmitted, 0, 135, 270}
ElevationArgs == (0 .. 90) \cup {ArgOmitted}

InitDefaults ==
    /\ images = [foreground |-> Undefined, background |-> Undefined,
                 depthMap |-> Undefined]
    /\ config \in
         [lightAngle : AngleArgs, lightElevation : ElevationArgs,
          maxShadowDistance : {FZero}, contactOpacity : {FZero},
          falloffRate : {FZero}, minBlurRadius : {FZero},
          maxBlurRadius : {FZero}]
    /\ pc = "idle"
    /\ calls = <<>>
    /\ nextBuf = FirstFreshBuf
    /\ validation = NoValidation
    /\ InitLocals
    /\ InitExtractor

Defaults_Multiplier ==
    /\ pc = "idle"
    /\ config.lightElevation # ArgOmitted
    /\ shadowLength' = Apply("getShadowLengthMultiplier", <<config.lightElevation>>)
    /\ calls' = Append(calls, Call("LightVectorCalculator",
                                   "getShadowLengthMultiplier"))
    /\ pc' = "multiplied"
    /\ UNCHANGED <<images, config, nextBuf, silhouette, lightVector,
                   contactLine, distanceMap, shadowMask, shadowLayer,
                   maskDebug, compositeOut, result, validation, extractorVars>>

Defaults_GetConfig ==
    /\ pc = "idle"
    /\ config' = Apply("getDefaultConfig",
                       <<config.lightAngle, config.lightElevation>>)
    /\ calls' = Append(calls, Call("ShadowGenerator", "getDefaultConfig"))
    /\ pc' = IF config.lightAngle = ArgOmitted
                /\ config.lightElevation = ArgOmitted
             THEN "defaulted" ELSE "configured"
    /\ UNCHANGED <<images, nextBuf, locals, validation, extractorVars>>

NextDefaults == Defaults_Multiplier \/ Defaults_GetConfig

SpecDefaults == InitDefaults /\ [][NextDefaults]_vars

(***************************************************************************)
(* A direct caller of BlurEngine.applyDistanceWeightedBlur on a layer of   *)
(* BlurWidth x BlurHeight pixels: shadowLayer is the input layer, the      *)
(* distance map grows by one pixel per cell or by the root of one pixel    *)
(* per cell, as a Float32Array holds it, and the result is kept in         *)
(* result.shadowOnly.                                                      *)
(***************************************************************************)
BlurWidth == 2
BlurHeight == 2

BlurPixels == {Pixel(0, 0, 0, 0), Pixel(11, 20, 30, 205)}
BlurRadii == {<<0, 0>>, <<400, 2 * Scale>>, <<833, 1666>>}
BlurMaxDistances == {0, 5 * Scale}

BlurConfigs ==
    {ShadowConfig(180, 30, m, 800, 4 * Scale, b[1], b[2]) :
        b \in BlurRadii, m \in BlurMaxDistances}

BlurDistanceMaps(w, h) ==
    {[buf |-> FirstFreshBuf + 1, data |-> dm, width |-> w, height |-> h] :
        dm \in {[idx \in Indices(w, h) |-> FFromInt(idx)],
                [idx \in Indices(w, h) |-> FToFloat32(FSqrt(FFromInt(idx)))]}}

InitBlur ==
    /\ images = [foreground |-> Undefined, background |-> Undefined,
                 depthMap |-> Undefined]
    /\ config \in BlurConfigs
    /\ pc = "idle"
    /\ calls = <<>>
    /\ nextBuf = FirstFreshBuf + 2
    /\ validation = NoValidation
    /\ silhouette = NoMask
    /\ lightVector = NoLightVector
    /\ shadowLength = FZero
    /\ contactLine = NoContactLine
    /\ distanceMap \in BlurDistanceMaps(BlurWidth, BlurHeight)
    /\ shadowMask = NoMask
    /\ shadowLayer \in
         ImagesOver(FirstFreshBuf, BlurWidth, BlurHeight, BlurPixels)
    /\ maskDebug = Undefined
    /\ compositeOut = Undefined
    /\ result = NoResult
    /\ InitExtractor

Blur_Apply ==
    /\ pc = "idle"
    /\ result' =
          [result EXCEPT !.shadowOnly =
              Image(nextBuf, shadowLayer.width, shadowLayer.height,
                    Apply("applyDistanceWeightedBlur",
                          <<shadowLayer, distanceMap, config.minBlurRadius,
                            config.maxBlurRadius,
                            config.maxShadowDistance>>))]
    /\ nextBuf' = nextBuf + 1
    /\ calls' = Append(calls, Call("BlurEngine", "applyDistanceWeightedBlur"))
    /\ pc' = "blurred"
    /\ UNCHANGED <<images, config, silhouette, lightVector, shadowLength,
                   contactLine, distanceMap, shadowMask, shadowLayer,
                   maskDebug, compositeOut, validation, extractorVars>>

NextBlur == Blur_Apply

SpecBlur == InitBlur /\ [][NextBlur]_vars

(***************************************************************************)
(* Properties.                                                             *)
(***************************************************************************)
Called(method) == \E k \in 1 .. Len(calls) : calls[k].method = method

InputBufs ==
    {img.buf : img \in {i \in {images.foreground, images.background,
                                images.depthMap} : IsPresent(i)}}

\* C1: when generate is called with the foreground or the background
\* absent, no pipeline stage executes and no ShadowResult is returned.
C1_MissingInputFailsBeforeAnyStage ==
    (~IsPresent(images.foreground) \/ ~IsPresent(images.background))
        => (calls = <<>> /\ pc # "done" /\ result = NoResult)

\* C2: no step of generate changes the pixel data of the foreground, the
\* background or the depth map, nor the ShadowConfig, and when generate
\* returns none of shadowOnly, maskDebug and composite is the buffer of an
\* input.
ResultAliasesNoInput ==
    {result.shadowOnly.buf, result.maskDebug.buf, result.composite.buf}
        \cap InputBufs = {}

C2_GenerateLeavesInputsUnchanged ==
    [][/\ images' = images
       /\ config' = config
       /\ (pc' = "done" => ResultAliasesNoInput')]_vars

C2_Witness ==
    /\ pc = "done"
    /\ IsPresent(images.depthMap)
    /\ result.composite.data # images.background.data
    /\ \E i \in DOMAIN result.shadowOnly.data : result.shadowOnly.data[i].a > 0

\* C3 as stated: the components are invoked in the order SilhouetteExtractor,
\* LightVectorCalculator, ContactLineDetector, DistanceTransform,
\* ShadowProjector, BlurEngine, ShadowCompositor, and once a later component
\* has been invoked no earlier one is invoked again.
ComponentRank(component) ==
    CASE component = "SilhouetteExtractor" -> 1
      [] component = "LightVectorCalculator" -> 2
      [] component = "ContactLineDetector" -> 3
      [] component = "DistanceTransform" -> 4
      [] component = "ShadowProjector" -> 5
      [] component = "BlurEngine" -> 6
      [] component = "ShadowCompositor" -> 7

C3_ComponentOrderAsStated ==
    \A i, j \in 1 .. Len(calls) :
        i < j => ComponentRank(calls[i].component)
                    <= ComponentRank(calls[j].component)

\* C3 amended: generate invokes the component methods in the one fixed order
\* extract, calculate, getShadowLengthMultiplier, detect, compute, project,
\* removeOcclusions, createShadowLayer, applyDistanceWeightedBlur,
\* maskToImageData, composite, each at most once: the calls made so far are
\* always a prefix of that sequence (ShadowCompositor.createShadowLayer runs
\* before BlurEngine, SilhouetteExtractor.maskToImageData after it).
GenerateCallOrder ==
    <<Call("SilhouetteExtractor", "extract"),
      Call("LightVectorCalculator", "calculate"),
      Call("LightVectorCalculator", "getShadowLengthMultiplier"),
      Call("ContactLineDetector", "detect"),
      Call("DistanceTransform", "compute"),
      Call("ShadowProjector", "project"),
      Call("ShadowProjector", "removeOcclusions"),
      Call("ShadowCompositor", "createShadowLayer"),
      Call("BlurEngine", "applyDistanceWeightedBlur"),
      Call("SilhouetteExtractor", "maskToImageData"),
      Call("ShadowCompositor", "composite")>>

C3_FixedMethodOrder ==
    /\ Len(calls) <= Len(GenerateCallOrder)
    /\ calls = SubSeq(GenerateCallOrder, 1, Len(calls))
    /\ (pc = "done" => calls = GenerateCallOrder)

C3_Witness == pc = "done" /\ Len(calls) = Len(GenerateCallOrder)

\* C4: validateImages throws when the foreground is absent, throws when the
\* background is absent, and returns normally whenever both are present,
\* whatever the dimensions of foreground, background and depth map.
C4_ValidateThrowsOnlyOnMissingInput ==
    pc = "validated" =>
        /\ validation.outcome \in {"threw", "returned"}
        /\ (validation.outcome = "threw")
              <=> (~IsPresent(images.foreground)
                   \/ ~IsPresent(images.background))

C4_Witness ==
    /\ pc = "validated"
    /\ validation.outcome = "returned"
    /\ ~SameDimensions(images.foreground, images.background)
    /\ IsPresent(images.depthMap)
    /\ ~SameDimensions(images.depthMap, images.foreground)
    /\ Len(validation.warnings) = 2

\* C5: extract sets mask[idx] to 1 exactly when the pixel's alpha is strictly
\* greater than alphaThreshold and to 0 otherwise, for every threshold in
\* 0..255; a call without a threshold uses 10.
C5_ExtractStrictThreshold ==
    pc \in {"extracted", "reextracted"} =>
        LET t == IF alphaThreshold = ArgOmitted THEN 10 ELSE alphaThreshold
        IN /\ DOMAIN mask.data = DOMAIN images.foreground.data
           /\ \A idx \in DOMAIN mask.data :
                 /\ mask.data[idx] \in {0, 1}
                 /\ mask.data[idx] = 1
                       <=> images.foreground.data[idx].a > t

C5_Witness ==
    /\ pc = "extracted"
    /\ alphaThreshold = ArgOmitted
    /\ \E i, j \in DOMAIN mask.data :
          /\ images.foreground.data[i].a = 10
          /\ mask.data[i] = 0
          /\ images.foreground.data[j].a = 11
          /\ mask.data[j] = 1

\* C6: for the same foreground and thresholds t1 <= t2 the opaque pixels of
\* extract(foreground, t2) are a subset of those of extract(foreground, t1),
\* so the opaque pixel count does not increase.
OpaqueSet(m) == {idx \in DOMAIN m : m[idx] = 1}

C6_ThresholdMonotone ==
    pc = "reextracted" =>
        /\ effectiveThreshold(prevThreshold) <= alphaThreshold
        /\ OpaqueSet(mask.data) \subseteq OpaqueSet(prevMask.data)
        /\ Cardinality(OpaqueSet(mask.data))
              <= Cardinality(OpaqueSet(prevMask.data))

C6_Witness ==
    /\ pc = "reextracted"
    /\ OpaqueSet(mask.data) # OpaqueSet(prevMask.data)
    /\ OpaqueSet(mask.data) # {}

\* the contact points, the opaque pixels and the pixel of a point of the
\* mask in use
Points == contactLine.points
PointIdx(pt) == pt.y * genWidth + pt.x
Opaque(x, y) == silhouette.data[y * genWidth + x] = 1
IsContactPoint(x, y) ==
    \E k \in 1 .. Len(Points) : Points[k].x = x /\ Points[k].y = y

\* C7: every point (x, y) returned by detect has mask[y*w+x] = 1 and no
\* opaque pixel at (x, y') for y < y' < h.
C7_ContactPointIsLowestOpaque ==
    Called("detect") =>
        \A k \in 1 .. Len(Points) :
            /\ Opaque(Points[k].x, Points[k].y)
            /\ \A y2 \in (Points[k].y + 1) .. (genHeight - 1) :
                  ~Opaque(Points[k].x, y2)

C7_Witness ==
    /\ Called("detect")
    /\ \E k \in 1 .. Len(Points) :
          /\ Points[k].y > 0
          /\ Points[k].y < genHeight - 1
          /\ Opaque(Points[k].x, Points[k].y - 1)

\* C8: detect returns exactly one point for each column that has an opaque
\* pixel and none for a column without one; the points are in strictly
\* increasing x order and satisfy 0 <= x < width, 0 <= y < height.
ColumnHasOpaque(x) == \E y \in 0 .. (genHeight - 1) : Opaque(x, y)

C8_OnePointPerOpaqueColumn ==
    Called("detect") =>
        /\ \A x \in 0 .. (genWidth - 1) :
              Cardinality({k \in 1 .. Len(Points) : Points[k].x = x})
                 = IF ColumnHasOpaque(x) THEN 1 ELSE 0
        /\ \A k \in 1 .. (Len(Points) - 1) : Points[k].x < Points[k + 1].x
        /\ \A k \in 1 .. Len(Points) :
              InBounds(Points[k].x, Points[k].y, genWidth, genHeight)

C8_Witness ==
    /\ Called("detect")
    /\ Len(Points) = 1
    /\ Points[1].x = genWidth - 1
    /\ Points[1].y = 0
    /\ ~ColumnHasOpaque(0)

\* C9: in distanceMap = compute(mask, detect(mask), w, h) the value at every
\* contact point is 0, every value is >= 0, and when every opaque pixel is
\* its column's contact point every value is 0.
SingleRowShape ==
    \A idx \in DOMAIN silhouette.data :
        silhouette.data[idx] = 1
            => IsContactPoint(XOf(idx, genWidth), YOf(idx, genWidth))

C9_ZeroAtContactNonNegative ==
    Called("compute") =>
        /\ DOMAIN distanceMap.data = Indices(genWidth, genHeight)
        /\ \A k \in 1 .. Len(Points) :
              FIsZero(distanceMap.data[PointIdx(Points[k])])
        /\ \A idx \in DOMAIN distanceMap.data :
              FLe(FZero, distanceMap.data[idx])
        /\ SingleRowShape =>
              \A idx \in DOMAIN distanceMap.data :
                  FIsZero(distanceMap.data[idx])

C9_Witness ==
    /\ Called("compute")
    /\ SingleRowShape
    /\ Len(Points) >= 2
    /\ Points[1].y # Points[2].y
    /\ FIsZero(distanceMap.data[PointIdx(Points[1])])

\* C10: with a non-empty contact line, compute stores for every opaque pixel
\* the minimum over all contact points of the Euclidean distance from the
\* pixel to the point, which is the distance to a point that is nearest by
\* squared distance, and stores 0 for every non-opaque pixel.  The map holds
\* floats: a stored distance is the float of the distance.
SquaredDistance(x, y, pt) ==
    (pt.x - x) * (pt.x - x) + (pt.y - y) * (pt.y - y)

C10_MinimumEuclideanDistance ==
    (Called("compute") /\ Len(Points) > 0) =>
        \A idx \in DOMAIN distanceMap.data :
            LET x == XOf(idx, genWidth)
                y == YOf(idx, genWidth)
                d == distanceMap.data[idx]
            IN IF silhouette.data[idx] = 0 THEN FIsZero(d)
               ELSE /\ \A k \in 1 .. Len(Points) :
                          FLe(d, FToFloat32(distance(x, y, Points[k].x,
                                                     Points[k].y)))
                    /\ \E k \in 1 .. Len(Points) :
                          /\ \A j \in 1 .. Len(Points) :
                                SquaredDistance(x, y, Points[k])
                                   <= SquaredDistance(x, y, Points[j])
                          /\ d = FToFloat32(distance(x, y, Points[k].x,
                                                     Points[k].y))

C10_Witness ==
    /\ Called("compute")
    /\ \E idx \in DOMAIN distanceMap.data :
          /\ silhouette.data[idx] = 1
          /\ FLt(FOne, distanceMap.data[idx])
          /\ \E k \in 1 .. Len(Points) :
                /\ Points[k].x = XOf(idx, genWidth)
                /\ FLt(distanceMap.data[idx],
                       distance(XOf(idx, genWidth), YOf(idx, genWidth),
                                Points[k].x, Points[k].y))

\* C11: compute called with an empty contact line returns, without raising
\* an error, a width x height map whose every value is 0, whatever the mask
\* contains.
C11_EmptyContactLineGivesZeroMap ==
    pc = "computedEmptyLine" =>
        /\ Len(contactLine.points) = 0
        /\ distanceMap.width = genWidth
        /\ distanceMap.height = genHeight
        /\ DOMAIN distanceMap.data = Indices(genWidth, genHeight)
        /\ \A idx \in DOMAIN distanceMap.data : FIsZero(distanceMap.data[idx])

C11_Witness ==
    /\ pc = "computedEmptyLine"
    /\ \E idx \in DOMAIN silhouette.data : silhouette.data[idx] = 1
    /\ \E idx \in DOMAIN silhouette.data : silhouette.data[idx] = 0
    /\ \A idx \in DOMAIN distanceMap.data : FIsZero(distanceMap.data[idx])

\* the cells a mask marks, as (x, y) pairs of a canvas of the width in use
MarkedCells(m) ==
    {<<XOf(idx, genWidth), YOf(idx, genWidth)>> : idx \in OpaqueSet(m)}

\* C12: for light angle 0 (dx > 0, dy = 0) and a mask with a single opaque
\* pixel (x0, y0), every cell project marks lies in row y0 at a column
\* x <= x0, the marked columns run contiguously from x0 toward -x, and no
\* cell with x > x0 is marked.
C12_ShadowCastOppositeLight ==
    (/\ pc = "projected"
     /\ config.lightAngle = 0
     /\ Cardinality(OpaqueSet(silhouette.data)) = 1)
    => LET src == CHOOSE c \in MarkedCells(silhouette.data) : TRUE
       IN /\ FLt(FZero, lightVector.dx)
          /\ FIsZero(lightVector.dy)
          /\ \E lo \in 0 .. src[1] :
                MarkedCells(shadowMask.data)
                    = {<<x, src[2]>> : x \in lo .. src[1]}

C12_Witness ==
    /\ pc = "projected"
    /\ config.lightAngle = 0
    /\ config.lightElevation = 30
    /\ MarkedCells(silhouette.data) = {<<2, 1>>}
    /\ MarkedCells(shadowMask.data) = {<<0, 1>>, <<1, 1>>, <<2, 1>>}

\* C13: for every pair of equal-size masks s and m,
\* removeOcclusions(removeOcclusions(s, m), m) = removeOcclusions(s, m), and
\* removeOcclusions(s, m) has no index at which both it and m are 1.
C13_RemoveOcclusionsIdempotent ==
    /\ pc \in {"once", "twice"} =>
          /\ DOMAIN shadowMask.data = DOMAIN silhouette.data
          /\ \A i \in DOMAIN shadowMask.data :
                ~(shadowMask.data[i] = 1 /\ silhouette.data[i] = 1)
    /\ pc = "twice" => shadowMask.data = prevMask.data

C13_Witness ==
    /\ pc = "twice"
    /\ shadowMask.data = prevMask.data
    /\ shadowMask.data # mask.data
    /\ OpaqueSet(shadowMask.data) # {}
    /\ OpaqueSet(mask.data) \cap OpaqueSet(silhouette.data) # {}

\* C14: for a ShadowConfig (maxShadowDistance > 0) createShadowLayer gives
\* every shadow pixel whose distance is 0 the alpha
\* round(contactOpacity * 255), an integer nearest to contactOpacity * 255,
\* for every contactOpacity in [0, 1] (a multiple of 1/Scale), with
\* r = g = b = 0.
C14_ContactAlphaIsRoundedOpacity ==
    (pc = "layered" /\ FLt(FZero, config.maxShadowDistance)) =>
        \A idx \in DOMAIN shadowLayer.data :
            (shadowMask.data[idx] = 1 /\ FIsZero(distanceMap.data[idx])) =>
                LET px == shadowLayer.data[idx]
                IN /\ px.r = 0 /\ px.g = 0 /\ px.b = 0
                   /\ px.a \in 0 .. 255
                   /\ 2 * Abs(px.a * Scale
                              - FToFx(config.contactOpacity) * 255) <= Scale

C14_Witness ==
    /\ pc = "layered"
    /\ config.contactOpacity = FFromFx(300)
    /\ FLt(FZero, config.maxShadowDistance)
    /\ \E idx \in DOMAIN shadowLayer.data :
          /\ shadowMask.data[idx] = 1
          /\ FIsZero(distanceMap.data[idx])
          /\ shadowLayer.data[idx] = Pixel(0, 0, 0, 76)

\* C15: composite(background, shadow, foreground) with a shadow layer whose
\* alpha is 0 at every pixel equals, pixel for pixel, the single Porter-Duff
\* "over" blend of the foreground over the background.
TransparentLayer(layer) == \A i \in DOMAIN layer.data : layer.data[i].a = 0

C15_TransparentShadowIsIdentity ==
    (pc = "composited" /\ TransparentLayer(shadowLayer)) =>
        /\ DOMAIN compositeOut.data = DOMAIN images.background.data
        /\ \A i \in DOMAIN compositeOut.data :
              compositeOut.data[i] = alphaBlend(images.background.data[i],
                                                images.foreground.data[i])

C15_Witness ==
    /\ pc = "composited"
    /\ TransparentLayer(shadowLayer)
    /\ \E i \in DOMAIN compositeOut.data :
          /\ shadowLayer.data[i] = Pixel(10, 20, 30, 0)
          /\ images.background.data[i].a = 128
          /\ images.foreground.data[i].a = 128
          /\ compositeOut.data[i] # images.background.data[i]
          /\ compositeOut.data[i] # images.foreground.data[i]

\* C16: compositeAttachedShadow ignores the shadow layer at every pixel
\* where silhouetteMask is 1 (the result there is the foreground blended
\* over the background only) and equals composite(background, shadow,
\* foreground) at every pixel where silhouetteMask is 0.
C16_AttachedShadowSuppressedUnderMask ==
    pc = "attached" =>
        /\ DOMAIN compositeOut.data = DOMAIN images.background.data
        /\ \A i \in DOMAIN compositeOut.data :
              compositeOut.data[i] =
                 IF silhouette.data[i] = 1
                 THEN alphaBlend(images.background.data[i],
                                 images.foreground.data[i])
                 ELSE composite(images.background, shadowLayer,
                                images.foreground)[i]

C16_Witness ==
    /\ pc = "attached"
    /\ \E i, j \in DOMAIN compositeOut.data :
          /\ silhouette.data[i] = 1
          /\ shadowLayer.data[i].a > 0
          /\ images.foreground.data[i].a = 128
          /\ compositeOut.data[i] # composite(images.background, shadowLayer,
                                               images.foreground)[i]
          /\ silhouette.data[j] = 0
          /\ shadowLayer.data[j].a > 0
          /\ compositeOut.data[j] # alphaBlend(images.background.data[j],
                                                images.foreground.data[j])

\* C17: scenario 1 (4 x 4 foreground whose only opaque pixel is (1, 3),
\* light angle 0, elevation 90, maxShadowDistance 150): generate leaves no
\* shadow pixel inside the canvas, shadowOnly is fully transparent and the
\* composite equals the blend of background and foreground alone.
C17_Scenario1NoShadowInCanvas ==
    /\ pc \notin {"threw", "hung"}
    /\ Called("removeOcclusions") => OpaqueSet(shadowMask.data) = {}
    /\ pc = "done" =>
          /\ TransparentLayer(result.shadowOnly)
          /\ \A i \in DOMAIN result.composite.data :
                result.composite.data[i]
                   = alphaBlend(images.background.data[i],
                                images.foreground.data[i])

C17_Witness ==
    /\ pc = "done"
    /\ genWidth = 4
    /\ genHeight = 4
    /\ MarkedCells(silhouette.data) = {<<1, 3>>}
    /\ config.lightAngle = 0
    /\ config.lightElevation = 90
    /\ config.maxShadowDistance = FFromInt(150)
    /\ FCmp(shadowLength, FFromInt(150)) = 0
    /\ TransparentLayer(result.shadowOnly)
    /\ result.composite.data[3 * 4 + 1].a = 255

\* C18: scenario 2 (10 x 10 foreground whose only opaque pixel is (2, 2),
\* light angle 180, elevation 30, maxShadowDistance 5): every shadow pixel
\* lies at x >= 2, the shadow columns increase contiguously from the source
\* pixel, and the shadow is clipped at the canvas edge x = 9 without error.
C18_Scenario2ShadowTowardPlusX ==
    /\ pc \notin {"threw", "hung"}
    /\ pc = "occlusion" =>
          MarkedCells(shadowMask.data) = {<<x, 2>> : x \in 2 .. 9}
    /\ Called("removeOcclusions") =>
          MarkedCells(shadowMask.data) = {<<x, 2>> : x \in 3 .. 9}

C18_Witness ==
    /\ pc = "done"
    /\ genWidth = 10
    /\ genHeight = 10
    /\ MarkedCells(silhouette.data) = {<<2, 2>>}
    /\ config.lightAngle = 180
    /\ config.lightElevation = 30
    /\ config.maxShadowDistance = FFromInt(5)
    /\ FLt(lightVector.dx, FZero)
    /\ MarkedCells(shadowMask.data) = {<<x, 2>> : x \in 3 .. 9}
    /\ result.shadowOnly.data[2 * 10 + 9].a > 0

\* C19 as stated: for a foreground whose every pixel is opaque, generate
\* raises no error, the silhouette is the full frame, and the shadow mask
\* used for the shadow layer is set over the frame (an image-covering
\* shadow).
OpaqueForeground ==
    /\ IsPresent(images.foreground)
    /\ \A i \in DOMAIN images.foreground.data :
          images.foreground.data[i].a = 255

FullFrame(m) == \A i \in DOMAIN m : m[i] = 1

C19_OpaqueForegroundShadowCoversImage ==
    (OpaqueForeground /\ IsPresent(images.background)) =>
        /\ pc # "threw"
        /\ Called("extract") => FullFrame(silhouette.data)
        /\ Called("createShadowLayer") => FullFrame(shadowMask.data)

\* C19 amended: for a foreground whose every pixel is opaque, generate
\* raises no error and the silhouette is the full frame; project marks the
\* whole frame, removeOcclusions then clears every cell, so the shadow mask
\* used for the shadow layer is empty, shadowOnly is fully transparent and
\* the composite is the foreground blended over the background.
C19_OpaqueForegroundCastsNoShadow ==
    (OpaqueForeground /\ IsPresent(images.background)) =>
        /\ pc # "threw"
        /\ Called("extract") => FullFrame(silhouette.data)
        /\ pc = "occlusion" => FullFrame(shadowMask.data)
        /\ Called("removeOcclusions") => OpaqueSet(shadowMask.data) = {}
        /\ pc = "done" =>
              /\ TransparentLayer(result.shadowOnly)
              /\ \A i \in DOMAIN result.composite.data :
                    result.composite.data[i]
                       = alphaBlend(images.background.data[i],
                                    images.foreground.data[i])

C19_Witness ==
    /\ pc = "done"
    /\ OpaqueForeground
    /\ IsPresent(images.depthMap)
    /\ FullFrame(silhouette.data)
    /\ OpaqueSet(shadowMask.data) = {}
    /\ TransparentLayer(result.shadowOnly)

\* the cells written while project processes the source pixels of a row of
\* the mask in use
WritesOfRow(row) ==
    rowWrites(silhouette.data, genWidth, genHeight, lightVector, shadowLength,
              images.depthMap, row)

Rows == 0 .. (genHeight - 1)

\* C20 as stated: in project the work done for different source rows writes
\* independent output cells: no cell of the shadow mask is written while
\* processing source pixels of two different rows.
C20_RowsWriteDisjointCells ==
    pc = "projected" =>
        \A r1, r2 \in Rows :
            r1 # r2 => WritesOfRow(r1) \cap WritesOfRow(r2) = {}

\* C20 amended: the source pixels of different rows may write the same cell
\* of the shadow mask, but every write stores 1, so the mask project returns
\* is the union of the cells written for each row; for a horizontal light
\* direction (light angle 0 or 180) the pixels of a row write only cells of
\* that row, so there the rows do not overlap.
C20_RowWritesUnionAndHorizontalDisjoint ==
    pc = "projected" =>
        /\ OpaqueSet(shadowMask.data) = UNION {WritesOfRow(r) : r \in Rows}
        /\ config.lightAngle \in {0, 180} =>
              \A r \in Rows :
                  \A idx \in WritesOfRow(r) : YOf(idx, genWidth) = r

C20_Witness ==
    /\ pc = "projected"
    /\ config.lightAngle = 180
    /\ Cardinality(WritesOfRow(0)) >= 2
    /\ Cardinality(WritesOfRow(1)) >= 2
    /\ WritesOfRow(0) \cap WritesOfRow(1) = {}
    /\ OpaqueSet(shadowMask.data) = WritesOfRow(0) \cup WritesOfRow(1)

\* C21: getShadowLengthMultiplier returns a value in [1, 10] for every
\* elevation in [0, 90] degrees: 10 at elevation 0, 1 at elevation 90, and
\* never larger for a higher elevation than for a lower one.
C21_MultiplierBoundedAndMonotone ==
    pc = "multiplied" =>
        /\ FLe(FOne, shadowLength)
        /\ FLe(shadowLength, FFromInt(10))
        /\ config.lightElevation = 0 => FCmp(shadowLength, FFromInt(10)) = 0
        /\ config.lightElevation = 90 => FCmp(shadowLength, FOne) = 0
        /\ \A higher \in config.lightElevation .. 90 :
              FLe(getShadowLengthMultiplier(higher), shadowLength)

C21_Witness ==
    /\ pc = "multiplied"
    /\ config.lightElevation = 30
    /\ FToFx(shadowLength) = 2 * Scale
    /\ FCmp(getShadowLengthMultiplier(5), FFromInt(10)) = 0
    /\ FLt(getShadowLengthMultiplier(6), FFromInt(10))

\* C22: getDefaultConfig(angle, elevation) returns maxShadowDistance 150,
\* minBlurRadius 1, maxBlurRadius 10, contactOpacity = 0.9 - 0.3 *
\* elevation / 90 and falloffRate = 3 + 2 * elevation / 90 (to the
\* resolution 1/(90 * Scale * Scale), at which both are whole), and for
\* every elevation in [0, 90] the returned configuration satisfies the
\* ShadowConfig ranges.
C22_DefaultConfigFromElevation ==
    pc \in {"configured", "defaulted"} =>
        /\ config.maxShadowDistance = FFromInt(150)
        /\ config.minBlurRadius = FFromInt(1)
        /\ config.maxBlurRadius = FFromInt(10)
        /\ config.lightElevation \in 0 .. 90
        /\ FMathRound(FMul(config.contactOpacity,
                           FFromInt(90 * Scale * Scale)))
              = (900 * 90 - 300 * config.lightElevation) * Scale
        /\ FMathRound(FMul(config.falloffRate, FFromInt(90 * Scale * Scale)))
              = (3000 * 90 + 2000 * config.lightElevation) * Scale
        /\ FLe(FZero, config.contactOpacity)
        /\ FLe(config.contactOpacity, FOne)
        /\ FLe(FZero, config.falloffRate)
        /\ FLe(config.minBlurRadius, config.maxBlurRadius)
        /\ FLt(FZero, config.maxShadowDistance)

C22_Witness ==
    /\ pc = "configured"
    /\ config.lightAngle = 270
    /\ config.lightElevation = 90
    /\ FToFx(config.contactOpacity) = 600
    /\ FLt(FFromFx(600), config.contactOpacity)
    /\ config.falloffRate = FFromInt(5)

\* C23: getDefaultConfig() without arguments returns the documented
\* defaults: lightAngle 135, lightElevation 45, maxShadowDistance 150,
\* contactOpacity 0.8, falloffRate 4, minBlurRadius 1, maxBlurRadius 10.
C23_DocumentedDefaults ==
    pc = "defaulted" =>
        config = [lightAngle |-> 135, lightElevation |-> 45,
                  maxShadowDistance |-> FFromInt(150),
                  contactOpacity |-> FFromFx(800),
                  falloffRate |-> FFromInt(4),
                  minBlurRadius |-> FFromInt(1),
                  maxBlurRadius |-> FFromInt(10)]

\* the radius applyDistanceWeightedBlur computes for a pixel of the layer
RadiusAt(idx) ==
    lerp(config.minBlurRadius, config.maxBlurRadius,
         normalize(distanceMap.data[idx], FZero, config.maxShadowDistance))

\* C24: every pixel whose computed radius is below 0.5 is copied unchanged
\* from the input layer (all four channels); with minBlur = maxBlur = 0 (in
\* a ShadowConfig, maxShadowDistance > 0) the output equals the input layer
\* pixel for pixel.
C24_SmallRadiusCopiesPixel ==
    pc = "blurred" =>
        /\ DOMAIN result.shadowOnly.data = DOMAIN shadowLayer.data
        /\ \A idx \in DOMAIN shadowLayer.data :
              FLt(RadiusAt(idx), BlurCutoff) =>
                  result.shadowOnly.data[idx] = shadowLayer.data[idx]
        /\ (/\ FIsZero(config.minBlurRadius)
            /\ FIsZero(config.maxBlurRadius)
            /\ FLt(FZero, config.maxShadowDistance)) =>
              result.shadowOnly.data = shadowLayer.data

C24_Witness ==
    /\ pc = "blurred"
    /\ config.minBlurRadius = FFromFx(400)
    /\ \E i, j \in DOMAIN shadowLayer.data :
          /\ RadiusAt(i) = FFromFx(400)
          /\ shadowLayer.data[i] = Pixel(11, 20, 30, 205)
          /\ result.shadowOnly.data[i] = shadowLayer.data[i]
          /\ FLe(FOne, RadiusAt(j))
          /\ result.shadowOnly.data[j] # shadowLayer.data[j]

\* the in-bounds cells within the radius of a pixel, and the sum of a
\* channel of the input layer over a set of cells
CellsWithin(idx, radius) ==
    {c \in DOMAIN shadowLayer.data :
        LET ox == XOf(c, shadowLayer.width) - XOf(idx, shadowLayer.width)
            oy == YOf(c, shadowLayer.width) - YOf(idx, shadowLayer.width)
        IN FLe(FFromInt(ox * ox + oy * oy), FMul(radius, radius))}

RECURSIVE InputSum(_, _)
InputSum(cells, ch) ==
    IF cells = {} THEN 0
    ELSE LET c == CHOOSE k \in cells : TRUE
         IN shadowLayer.data[c][ch] + InputSum(cells \ {c}, ch)

\* C25: for a radius >= 0.5 each of the four output channels of a blurred
\* pixel is the rounded equal-weight mean of that channel over exactly the
\* in-bounds pixels of the input layer at offsets (dx, dy) with
\* dx*dx + dy*dy <= radius*radius; out-of-bounds neighbours count neither
\* in the sum nor in the count.
C25_BlurIsMeanOverInBoundsDisc ==
    pc = "blurred" =>
        \A idx \in DOMAIN shadowLayer.data :
            FLe(BlurCutoff, RadiusAt(idx)) =>
                LET cells == CellsWithin(idx, RadiusAt(idx))
                    count == Cardinality(cells)
                IN \A ch \in {"r", "g", "b", "a"} :
                      LET out == result.shadowOnly.data[idx][ch]
                          sum == InputSum(cells, ch)
                      IN /\ 2 * Abs(out * count - sum) <= count
                         /\ (2 * (sum % count) = count
                               => out = (sum \div count) + 1)

C25_Witness ==
    /\ pc = "blurred"
    /\ config.minBlurRadius = FFromFx(400)
    /\ \A c \in DOMAIN shadowLayer.data :
          shadowLayer.data[c].a = (IF c \in {1, 3} THEN 205 ELSE 0)
    /\ FLt(FOne, RadiusAt(3))
    /\ Cardinality(CellsWithin(3, RadiusAt(3))) = 3
    /\ result.shadowOnly.data[3].a = 137
    /\ result.shadowOnly.data[2].a = 68

\* C26: ShadowProjector.project terminates for every mask, light vector,
\* maxDistance and depth map: the loop of drawLine always reaches the
\* rounded end point, also when the projected end point has fractional
\* coordinates (the call never runs past the end point without returning).
C26_ProjectTerminates ==
    pc # "hung"

\* C27: in generate every pixel set in the shadow mask after removeOcclusions
\* is a non-silhouette pixel and has distance 0 in the distance map, so
\* createShadowLayer gives all shadow pixels one alpha, the rounded
\* contactOpacity * 255, whatever falloffRate and maxShadowDistance are.
C27_ShadowPixelsHaveZeroDistance ==
    pc = "blur" =>
        \A idx \in OpaqueSet(shadowMask.data) :
            /\ silhouette.data[idx] = 0
            /\ FIsZero(distanceMap.data[idx])
            /\ 2 * Abs(shadowLayer.data[idx].a * Scale
                       - FToFx(config.contactOpacity) * 255) <= Scale
            /\ \A other \in OpaqueSet(shadowMask.data) :
                  shadowLayer.data[other].a = shadowLayer.data[idx].a

C27_Witness ==
    /\ pc = "blur"
    /\ Cardinality(OpaqueSet(shadowMask.data)) >= 2
    /\ \E idx \in DOMAIN distanceMap.data :
          FLt(FZero, distanceMap.data[idx])
    /\ \A idx \in OpaqueSet(shadowMask.data) : shadowLayer.data[idx].a = 204

\* a foreground whose every pixel has alpha 0
TransparentForeground ==
    /\ IsPresent(images.foreground)
    /\ \A idx \in DOMAIN images.foreground.data :
          images.foreground.data[idx].a = 0

\* C28: for a foreground whose every pixel has alpha 0 (and a background),
\* generate raises no exception, the contact line is empty, shadowOnly is
\* fully transparent at every pixel and composite equals the background
\* pixel for pixel, for every config and with or without a depth map.
C28_TransparentForegroundGivesBackground ==
    (TransparentForeground /\ IsPresent(images.background)) =>
        /\ pc \notin {"threw", "hung"}
        /\ Called("detect") => Len(contactLine.points) = 0
        /\ pc = "done" =>
              /\ \A idx \in DOMAIN result.shadowOnly.data :
                    result.shadowOnly.data[idx].a = 0
              /\ result.composite.data = images.background.data

C28_Witness ==
    /\ pc = "done"
    /\ TransparentForeground
    /\ IsPresent(images.depthMap)
    /\ FLt(FZero, config.minBlurRadius)
    /\ Len(contactLine.points) = 0
    /\ result.composite.data = images.background.data

\* C29: in the output of ShadowCompositor.composite every pixel at which the
\* foreground alpha is 255 equals the foreground pixel exactly (its r, g, b
\* and alpha 255), whatever the background and the shadow layer hold there.
C29_OpaqueForegroundPixelKept ==
    pc = "composited" =>
        \A idx \in DOMAIN compositeOut.data :
            images.foreground.data[idx].a = 255 =>
                /\ compositeOut.data[idx].r = images.foreground.data[idx].r
                /\ compositeOut.data[idx].g = images.foreground.data[idx].g
                /\ compositeOut.data[idx].b = images.foreground.data[idx].b
                /\ compositeOut.data[idx].a = 255

C29_Witness ==
    /\ pc = "composited"
    /\ \E idx \in DOMAIN compositeOut.data :
          /\ images.foreground.data[idx].a = 255
          /\ shadowLayer.data[idx].a = 204
          /\ images.background.data[idx] # images.foreground.data[idx]
          /\ compositeOut.data[idx] = images.foreground.data[idx]
    /\ \E idx \in DOMAIN compositeOut.data :
          /\ images.foreground.data[idx].a = 0
          /\ shadowLayer.data[idx].a = 204
          /\ compositeOut.data[idx] # images.background.data[idx]

\* C30: project called with a depth map whose red channel is 0 at every
\* pixel returns the same shadow mask as the call with no depth map (and
\* fails to return in the same cases), for every mask, light vector and
\* maxDistance; and a depth map never shortens a ray: the warp factor is
\* 1 + red / 255 * 0.5 and lies in [1, 1.5].
C30_ZeroDepthMapIsNoDepthMap ==
    (pc \in {"projected", "hung"} /\ IsPresent(images.depthMap)) =>
        /\ \A idx \in DOMAIN images.depthMap.data :
              LET warp == warpFactor(images.depthMap, idx)
                  red == images.depthMap.data[idx].r
              IN /\ FLe(FOne, warp)
                 /\ FLe(warp, FFromFx(1500))
                 /\ Abs(2 * 255 * (FToFx(warp) - Scale) - red * Scale) <= 255
        /\ (\A idx \in DOMAIN images.depthMap.data :
                images.depthMap.data[idx].r = 0)
              => LET plain == project(silhouette.data, genWidth, genHeight,
                                      lightVector, shadowLength, Undefined)
                 IN /\ shadowMask.data = plain.data
                    /\ (pc = "hung") = plain.hung

C30_Witness ==
    /\ pc = "projected"
    /\ IsPresent(images.depthMap)
    /\ \A idx \in DOMAIN images.depthMap.data :
          images.depthMap.data[idx].r = 0
    /\ Cardinality(OpaqueSet(silhouette.data)) = 1
    /\ Cardinality(OpaqueSet(shadowMask.data)) = 2
    /\ project(silhouette.data, genWidth, genHeight, lightVector,
               shadowLength, Undefined).data = shadowMask.data
    /\ project(silhouette.data, genWidth, genHeight, lightVector, shadowLength,
               [images.depthMap EXCEPT !.data =
                   [i \in DOMAIN images.depthMap.data |->
                       Pixel(255, 255, 255, 255)]]).data # shadowMask.data

====
